---- MODULE Spec2Model ----
(***************************************************************************)
(* Verification model of the portia import pipeline                        *)
(* (clinical-document normalization and idempotent persistence).           *)
(*                                                                         *)
(* Strings of the program are modelled by values whose equality is the     *)
(* equality of the strings they stand for:                                 *)
(*   - a reference / fullUrl string is a record [form, kind, id]:          *)
(*       form "rel"  is  "<kind>/<id>"                                     *)
(*       form "urn"  is  "urn:uuid:<id>"                                   *)
(*       form "abs"  is  another absolute URL ending in <kind>/<id>        *)
(*       form "none" is  the missing / empty string                        *)
(*   - "" is the missing (None or empty, falsy) value of a string field.   *)
(***************************************************************************)
EXTENDS Integers, Sequences, FiniteSets, TLC

VARIABLES
    bundle,      \* the graph being normalised (sequence of entries)
    raw,         \* the graph as it was handed to
                 \* _ensure_all_fullurls_and_remap_references
    ensured,     \* the graph as it was handed to add_identifiers_to_bundle
    idWarnings,  \* id_warnings of add_identifiers_to_bundle (remap lines only)
    tx,          \* the transaction bundle built by _to_transaction_bundle
    phase,       \* position in the normaliser: "raw", "ensured", "ids", "tx"
    persons,     \* the store's Person records [id, demo, link]
    patients,    \* the store's Patient records [id, person, org]
    nextId,      \* the next id the store assigns
    mt,          \* per caller: the match_or_create call in progress
    calls,       \* number of match_or_create calls started
    request,     \* the ImportRequest being served (the same bytes every run)
    pc,          \* position of process_import
    run,         \* number of import requests received so far
    warnings,    \* process_import: warnings
    errors,      \* process_import: errors
    match_result,\* process_import: match_result (NoResult is None)
    resources,   \* the store's clinical records
    storeLog,    \* requests process_import itself sent to the store, this run
    txResult,    \* per-entry outcome of this run's transaction
    response,    \* the ImportResponse, or the error raised
    history,     \* the responses of the earlier runs
    converted,   \* outcome of this run's converter call: "", "ok", "failed"
    pre,         \* the store as it was when this run's request arrived
    r4_bundle,   \* transform_bundle: its argument
    r5_bundle,   \* transform_bundle: the bundle it returns
    transform_warnings, \* transform_bundle: the warnings it returns
    fpc,         \* position of a single function call: "off", "input", "done"
    notes,       \* CHARM extraction: the ClinicalNote list
    problems,    \* CHARM extraction: the ProblemEntry list
    medications, \* CHARM extraction: the MedicationEntry list
    encounters,  \* CHARM extraction: the EncounterData list
    fhir_bundle, \* CHARM processing: the R4 bundle of the converter
    charm_warnings, \* CHARM processing: the warnings it returns
    cpc,         \* position of the CHARM processing: "off", "input",
                 \* "extracted", "linked", "raised", "composed", "applied"
    ccda_meds,   \* dose handling: the substanceAdministrations of the C-CDA
    sanitized_meds, \* dose handling: the same after sanitize_ccda
    dose_ranges, \* dose handling: the DoseRangeInfo list of sanitize_ccda
    dose_r4,     \* dose handling: the converter's R4 bundle
    dose_r5,     \* dose handling: the bundle after transform_bundle
    dose_out,    \* dose handling: the bundle after
                 \* _convert_dose_quantities_to_ranges
    dpc,         \* position of the dose handling: "off", "source",
                 \* "sanitized", "converted", "transformed", "restored"
    submitted,   \* persist_bundle: the fullUrls of the transaction entries
    store_response, \* persist_bundle: what _execute_bundle gives back
    persistence, \* persist_bundle: the PersistenceResult it returns
    encounter_id, \* _create_import_encounter: what it returns or raises
    ppc          \* position of the persistence call: "off", "bundle",
                 \* "appointment", "persisted", "created"

idsVars == <<bundle, raw, ensured, idWarnings, tx, phase>>

storeVars == <<persons, patients, nextId>>

matcherVars == <<mt, calls>>

pipeVars == <<request, pc, run, warnings, errors, match_result, resources,
              storeLog, txResult, response, history, converted, pre>>

charmVars == <<notes, problems, medications, encounters, fhir_bundle,
               charm_warnings, cpc>>

doseVars == <<ccda_meds, sanitized_meds, dose_ranges, dose_r4, dose_r5,
              dose_out, dpc>>

persistVars == <<submitted, store_response, persistence, encounter_id, ppc>>

callVars == <<r4_bundle, r5_bundle, transform_warnings, fpc, charmVars,
              doseVars, persistVars>>

vars == <<idsVars, storeVars, matcherVars, pipeVars, callVars>>

\* transform_bundle is not being looked at
NoTransform ==
    /\ r4_bundle = <<>>
    /\ r5_bundle = <<>>
    /\ transform_warnings = <<>>
    /\ fpc = "off"

\* the CHARM processing is not being looked at
NoCharm ==
    /\ notes = <<>>
    /\ problems = <<>>
    /\ medications = <<>>
    /\ encounters = <<>>
    /\ fhir_bundle = <<>>
    /\ charm_warnings = <<>>
    /\ cpc = "off"

\* the dose handling is not being looked at
NoDose ==
    /\ ccda_meds = <<>>
    /\ sanitized_meds = <<>>
    /\ dose_ranges = <<>>
    /\ dose_r4 = <<>>
    /\ dose_r5 = <<>>
    /\ dose_out = <<>>
    /\ dpc = "off"

\* persist_bundle is not being looked at on its own
NoPersist ==
    /\ submitted = <<>>
    /\ store_response = <<>>
    /\ persistence = <<>>
    /\ encounter_id = <<>>
    /\ ppc = "off"

\* no single function call is being looked at
NoCall == NoTransform /\ NoCharm /\ NoDose /\ NoPersist

----------------------------------------------------------------------------
(* Reference strings *)

NoRef == [form |-> "none", kind |-> "", id |-> ""]

RelRef(k, i) == [form |-> "rel", kind |-> k, id |-> i]

UrnRef(i) == [form |-> "urn", kind |-> "", id |-> i]

AbsRef(k, i) == [form |-> "abs", kind |-> k, id |-> i]

\* str.startswith("urn:uuid:")
IsUrn(r) == r.form = "urn"

\* str.startswith("Encounter/")
StartsWithEncounter(r) == r.form = "rel" /\ r.kind = "Encounter"

NoRequest == [method |-> "", url |-> <<>>]

NoIdent == [system |-> "", value |-> <<>>]

\* a Patient without name and birthDate
NoDemo == [given_name |-> "", family_name |-> "", birth_date |-> ""]

\* one line of a warnings list: the text, what it is about, a count, and
\* the reference string it quotes
Warn(msg, what, n, ref) == [msg |-> msg, what |-> what, n |-> n, ref |-> ref]

EmptyMap == [x \in {} |-> NoRef]

\* dict lookup with default: m.get(k, k)
Lookup(m, k) == IF k \in DOMAIN m THEN m[k] ELSE k

\* dict assignment m[k] = v
Put(m, k, v) == (k :> v) @@ m

----------------------------------------------------------------------------
(* Dates: the raw dateTime strings of the records and their parsing *)

\* _extract_date: "" and unparsable strings give None (""), otherwise the
\* first ten characters (the part before "T") parsed as an ISO date.
_extract_date(v) ==
    CASE v = "" -> ""
      [] v = "not-a-date" -> ""
      [] v = "2023-03-21" -> "2023-03-21"
      [] v = "2023-03-21T09:30:00" -> "2023-03-21"
      [] v = "2023-03-28" -> "2023-03-28"
      [] v = "2023-03-28T14:00:00" -> "2023-03-28"
      [] OTHER -> ""

----------------------------------------------------------------------------
(* Entries *)

\* One entry of the bundle.  kind = "" is an entry without resourceType,
\* id = "" a record without id, fullUrl = NoRef an entry without fullUrl.
\* date  is actualPeriod.start (Encounter), onsetDateTime (Condition), date
\*       (Composition), effectivePeriod.start (MedicationStatement),
\*       effectiveDateTime (Observation);
\* date2 is recordedDate (Condition), effectiveDateTime (MedicationStatement).
\* refs  is the list of reference fields of the record other than subject:
\*       [field, nested, ref], nested = TRUE for {"reference": {"reference": s}}.
\* malformed: a field of the record has a shape its R4-to-R5 transformer
\*       raises on (a Condition whose clinicalStatus is a bare string).
\* demo  is name[0].given[0], name[0].family, birthDate of a Patient;
\* org   is managingOrganization; tag the import-source tag of meta.tag;
\* orgTag the organization-id tag of meta.tag.
\* note  is the JSON shape of the record's note field, one of ARRAY_FIELDS:
\*       "absent", "object" (a single value) or "list".
MkEntry(fu, k, i, c, d, d2, subj, rs) ==
    [fullUrl |-> fu, kind |-> k, id |-> i, code |-> c, date |-> d,
     date2 |-> d2, subject |-> subj, refs |-> rs,
     identifier |-> <<>>, request |-> NoRequest,
     malformed |-> FALSE, demo |-> NoDemo, org |-> "", tag |-> "",
     orgTag |-> "", note |-> "absent"]

Slot(f, n, r) == [field |-> f, nested |-> n, ref |-> r]

\* the values of the request variables while no request is being served
NoImportRequest == [format |-> "", org |-> "", data |-> <<>>]

\* MatchResult; person_id / patient_id 0 is None
MatchResult(st, per, pat, perNew, patNew, warns) ==
    [status |-> st, person_id |-> per, patient_id |-> pat,
     person_created |-> perNew, patient_created |-> patNew, warnings |-> warns]

NoResult == MatchResult("", 0, 0, FALSE, FALSE, <<>>)

NoResponse == [status |-> "", error |-> <<>>, created |-> 0, updated |-> 0,
               persisted |-> FALSE]

NoStore == [persons |-> {}, patients |-> {}, resources |-> {}]

----------------------------------------------------------------------------
(* gateway._ensure_all_fullurls_and_remap_references *)

\* uuid4(): a fresh token; the i-th entry of a bundle draws the i-th one.
GenIds == <<"g1", "g2", "g3", "g4", "g5">>

uuid4(i) == GenIds[i]

\* Step 1 for one entry (gateway.py 489-511): give the record an id and the
\* entry a urn:uuid fullUrl.  Entries without resourceType are skipped.
EnsureEntry(e, i) ==
    IF e.kind = "" THEN e
    ELSE LET rid == IF e.id = "" THEN uuid4(i) ELSE e.id
             fu == IF e.fullUrl = NoRef \/ ~IsUrn(e.fullUrl)
                   THEN UrnRef(rid) ELSE e.fullUrl
         IN [e EXCEPT !.id = rid, !.fullUrl = fu]

\* Step 1, the map (gateway.py 513-517).  The old fullUrl is compared with
\* entry["fullUrl"] AFTER that field was overwritten, so the second mapping
\* never fires: only ResourceType/id -> fullUrl is recorded.
RECURSIVE EnsureRefMap(_, _, _)
EnsureRefMap(b, i, m) ==
    IF i > Len(b) THEN m
    ELSE LET e == EnsureEntry(b[i], i)
             m1 == IF e.kind = "" THEN m
                   ELSE Put(m, RelRef(e.kind, e.id), e.fullUrl)
             m2 == IF e.kind # "" /\ e.fullUrl # NoRef /\ e.fullUrl # e.fullUrl
                   THEN Put(m1, e.fullUrl, e.fullUrl) ELSE m1
         IN EnsureRefMap(b, i + 1, m2)

\* remap_reference (gateway.py 522-536) on one reference field: the outer
\* dict is rewritten when its value is a string; a nested dict is reached by
\* the recursion and rewritten there.  Either way: one lookup.
remap_reference(m, s) == [s EXCEPT !.ref = Lookup(m, s.ref)]

RemapSubject(m, r) == IF r = NoRef THEN NoRef ELSE Lookup(m, r)

EnsureRemapEntry(m, e) ==
    [e EXCEPT !.subject = RemapSubject(m, e.subject),
              !.refs = [n \in DOMAIN e.refs |-> remap_reference(m, e.refs[n])]]

\* number of reference fields of an entry rewritten under map m
RefHits(m, e) ==
    Cardinality({n \in DOMAIN e.refs : e.refs[n].ref \in DOMAIN m})
    + (IF e.subject # NoRef /\ e.subject \in DOMAIN m THEN 1 ELSE 0)

RECURSIVE SumHits(_, _, _)
SumHits(m, b, i) ==
    IF i > Len(b) THEN 0 ELSE RefHits(m, b[i]) + SumHits(m, b, i + 1)

\* The whole function: the bundle after it, and its warnings
\* ("Remapped n references to urn:uuid format" when n > 0).
_ensure_all_fullurls_and_remap_references(b) ==
    LET b1 == [i \in DOMAIN b |-> EnsureEntry(b[i], i)]
        m == EnsureRefMap(b, 1, EmptyMap)
        n == SumHits(m, b1, 1)
    IN [bundle |-> [i \in DOMAIN b1 |-> EnsureRemapEntry(m, b1[i])],
        warnings |-> IF n > 0
                     THEN <<Warn("Remapped references to urn:uuid format",
                                 <<>>, n, NoRef)>>
                     ELSE <<>>]

----------------------------------------------------------------------------
(* matching/identifier_service.py *)

IMPORT_IDENTIFIER_SYSTEM == "urn:panova:import"

\* The identifier systems: IMPORT_IDENTIFIER_SYSTEM + ":" + suffix.
ENCOUNTER_IDENTIFIER_SYSTEM == <<IMPORT_IDENTIFIER_SYSTEM, "encounter">>

CONDITION_IDENTIFIER_SYSTEM == <<IMPORT_IDENTIFIER_SYSTEM, "condition">>

COMPOSITION_IDENTIFIER_SYSTEM == <<IMPORT_IDENTIFIER_SYSTEM, "composition">>

MEDICATION_IDENTIFIER_SYSTEM == <<IMPORT_IDENTIFIER_SYSTEM, "medication">>

OBSERVATION_IDENTIFIER_SYSTEM == <<IMPORT_IDENTIFIER_SYSTEM, "observation">>

\* ResourceIdentifier(system, value); value is the ":"-joined tuple.
ResourceIdentifier(sys, val) == [system |-> sys, value |-> val]

encounter_identifier(pid, d) ==
    ResourceIdentifier(ENCOUNTER_IDENTIFIER_SYSTEM, <<pid, d>>)

condition_identifier(pid, c, d) ==
    ResourceIdentifier(CONDITION_IDENTIFIER_SYSTEM, <<pid, c, d>>)

composition_identifier(pid, d) ==
    ResourceIdentifier(COMPOSITION_IDENTIFIER_SYSTEM, <<pid, d>>)

medication_identifier(pid, c, d) ==
    ResourceIdentifier(MEDICATION_IDENTIFIER_SYSTEM,
                       <<pid, c, IF d = "" THEN "unknown" ELSE d>>)

observation_identifier(pid, c, d) ==
    ResourceIdentifier(OBSERVATION_IDENTIFIER_SYSTEM, <<pid, c, d>>)

\* add_identifier_to_resource: append unless already present
add_identifier_to_resource(e, ident) ==
    IF \E n \in DOMAIN e.identifier : e.identifier[n] = ident THEN e
    ELSE [e EXCEPT !.identifier = Append(@, ident)]

\* create_conditional_request: PUT <kind>?identifier=<system>|<value>
create_conditional_request(k, ident) ==
    [method |-> "PUT", url |-> <<k, "?identifier=", ident.system, ident.value>>]

\* The identifier rule of add_identifiers_to_bundle (lines 288-340), NoIdent
\* when the record kind has no rule or a needed field is missing.
StableIdentifier(e, pid) ==
    CASE e.kind = "Encounter" ->
            IF _extract_date(e.date) # ""
            THEN encounter_identifier(pid, _extract_date(e.date)) ELSE NoIdent
      [] e.kind = "Condition" ->
            \* _extract_date(onsetDateTime or recordedDate)
            LET d == _extract_date(IF e.date # "" THEN e.date ELSE e.date2)
            IN IF e.code # "" /\ d # ""
               THEN condition_identifier(pid, e.code, d) ELSE NoIdent
      [] e.kind = "Composition" ->
            IF _extract_date(e.date) # ""
            THEN composition_identifier(pid, _extract_date(e.date)) ELSE NoIdent
      [] e.kind = "MedicationStatement" ->
            \* _extract_date_from_period(effectivePeriod) or
            \* _extract_date(effectiveDateTime)
            LET d == IF _extract_date(e.date) # "" THEN _extract_date(e.date)
                     ELSE _extract_date(e.date2)
            IN IF e.code # ""
               THEN medication_identifier(pid, e.code, d) ELSE NoIdent
      [] e.kind = "Observation" ->
            IF e.code # "" /\ _extract_date(e.date) # ""
            THEN observation_identifier(pid, e.code, _extract_date(e.date))
            ELSE NoIdent
      [] OTHER -> NoIdent

\* First pass (lines 243-261): ResourceType/id -> fullUrl
RECURSIVE IdToFullUrl(_, _, _)
IdToFullUrl(b, i, m) ==
    IF i > Len(b) THEN m
    ELSE LET e == b[i]
         IN IdToFullUrl(b, i + 1,
              IF e.kind # "" /\ e.id # "" /\ e.fullUrl # NoRef
              THEN Put(m, RelRef(e.kind, e.id), e.fullUrl) ELSE m)

\* Second pass (lines 276-378), entry by entry.  acc.claimed is
\* identifier_to_fullurl, acc.dupRefs is duplicate_refs, acc.dup the set of
\* positions marked _duplicate, acc.out the entries as modified so far.
RECURSIVE SecondPass(_, _, _, _)
SecondPass(b, pid, i, acc) ==
    IF i > Len(b) THEN acc
    ELSE LET e == b[i]
             ident == StableIdentifier(e, pid)
             isDup == ident # NoIdent /\ ident \in DOMAIN acc.claimed
             kept == IF isDup THEN acc.claimed[ident] ELSE NoRef
             d1 == IF isDup /\ e.fullUrl # NoRef
                   THEN Put(acc.dupRefs, e.fullUrl, kept) ELSE acc.dupRefs
             d2 == IF isDup /\ e.id # ""
                   THEN Put(d1, RelRef(e.kind, e.id), kept) ELSE d1
             e1 == IF ident # NoIdent /\ ~isDup
                   THEN LET w == add_identifier_to_resource(e, ident)
                        IN IF e.kind # "Encounter"
                           THEN [w EXCEPT !.request =
                                     create_conditional_request(e.kind, ident)]
                           ELSE w
                   ELSE e
             e2 == IF e1.subject # NoRef
                   THEN [e1 EXCEPT !.subject = RelRef("Patient", pid)] ELSE e1
         IN IF e.kind = "" THEN
                SecondPass(b, pid, i + 1, [acc EXCEPT !.out = Append(@, e)])
            ELSE
                SecondPass(b, pid, i + 1,
                   [claimed |-> IF ident # NoIdent /\ ~isDup
                                THEN Put(acc.claimed, ident, e.fullUrl)
                                ELSE acc.claimed,
                    dupRefs |-> d2,
                    dup |-> IF isDup THEN acc.dup \cup {i} ELSE acc.dup,
                    out |-> Append(acc.out, e2)])

\* BuildRefMap with the duplicate aliases forgotten
BuildRefMap_NoAliases(idMap, dupRefs) ==
    [k \in {x \in DOMAIN idMap : x # idMap[x]} |-> idMap[k]]

\* ref_map (lines 383-392): id_to_fullurl without identities, then
\* duplicate_refs on top.
BuildRefMap(idMap, dupRefs) ==
    dupRefs @@ [k \in {x \in DOMAIN idMap : x # idMap[x]} |-> idMap[k]]

\* _remap_refs_in_obj on one reference field.  A simple reference is looked
\* up once.  A nested one is looked up in the outer dict (lines 541-549) and
\* the recursion over obj.items() then visits the inner dict, whose
\* "reference" is by now the rewritten string, and looks that up again.
_remap_refs_in_obj(m, s) ==
    IF s.nested THEN [s EXCEPT !.ref = Lookup(m, Lookup(m, s.ref))]
    ELSE [s EXCEPT !.ref = Lookup(m, s.ref)]

\* the "NOT IN MAP" lines _remap_refs_in_obj appends for one reference field
NotInMapWarnings(m, s) ==
    LET first == IF s.ref \notin DOMAIN m /\ StartsWithEncounter(s.ref)
                 THEN <<[msg |-> "NOT IN MAP", ref |-> s.ref]>> ELSE <<>>
        r1 == Lookup(m, s.ref)
        again == IF s.nested /\ r1 \notin DOMAIN m /\ StartsWithEncounter(r1)
                 THEN <<[msg |-> "NOT IN MAP", ref |-> r1]>> ELSE <<>>
    IN first \o again

RECURSIVE SlotWarnings(_, _, _)
SlotWarnings(m, rs, n) ==
    IF n > Len(rs) THEN <<>>
    ELSE NotInMapWarnings(m, rs[n]) \o SlotWarnings(m, rs, n + 1)

RECURSIVE BundleWarnings(_, _, _)
BundleWarnings(m, b, i) ==
    IF i > Len(b) THEN <<>>
    ELSE SlotWarnings(m, b[i].refs, 1) \o BundleWarnings(m, b, i + 1)

\* _remap_references over one entry (subject is a simple reference)
RemapEntry(m, e) ==
    [e EXCEPT !.subject = RemapSubject(m, e.subject),
              !.refs = [n \in DOMAIN e.refs |-> _remap_refs_in_obj(m, e.refs[n])]]

_remap_references(b, m) == [i \in DOMAIN b |-> RemapEntry(m, b[i])]

\* the subsequence of b at the positions not in drop
RECURSIVE WithoutPositions(_, _, _)
WithoutPositions(b, drop, i) ==
    IF i > Len(b) THEN <<>>
    ELSE (IF i \in drop THEN <<>> ELSE <<b[i]>>)
         \o WithoutPositions(b, drop, i + 1)

\* add_identifiers_to_bundle(bundle, patient_id, identifier_service):
\* the bundle it returns and the remap lines of its warnings.
add_identifiers_to_bundle(b, pid) ==
    LET idMap == IdToFullUrl(b, 1, EmptyMap)
        p2 == SecondPass(b, pid, 1,
                 [claimed |-> [x \in {} |-> NoRef], dupRefs |-> EmptyMap,
                  dup |-> {}, out |-> <<>>])
        m == BuildRefMap(idMap, p2.dupRefs)
        remapped == IF DOMAIN m # {} THEN _remap_references(p2.out, m)
                    ELSE p2.out
    IN [bundle |-> WithoutPositions(remapped, p2.dup, 1),
        warnings |-> (IF DOMAIN m # {} THEN BundleWarnings(m, p2.out, 1)
                      ELSE <<>>)
                     \o <<[msg |-> "Removed duplicates",
                           n |-> Cardinality(p2.dup)]>>]

----------------------------------------------------------------------------
(* services/fhir_store_service.py: FHIRStoreService._to_transaction_bundle *)

\* The request of one transaction entry (lines 218-249): an entry whose
\* fullUrl is urn:uuid is always POSTed, whatever request it carries.
TransactionRequest(e) ==
    IF e.fullUrl # NoRef /\ IsUrn(e.fullUrl)
    THEN [method |-> "POST", url |-> <<e.kind>>]
    ELSE IF e.request.method # "" /\ e.request.url # <<>>
         THEN e.request
         ELSE [method |-> IF e.id # "" THEN "PUT" ELSE "POST",
               url |-> IF e.id # "" THEN <<e.kind, e.id>> ELSE <<e.kind>>]

\* _add_organization_tag (lines 269-294): set or overwrite the tag
_add_organization_tag(e, org) == [e EXCEPT !.orgTag = org]

\* lines 203-267; org = "" is organization_id None
RECURSIVE _to_transaction_bundle(_, _)
_to_transaction_bundle(b, org) ==
    IF b = <<>> THEN <<>>
    ELSE (IF Head(b).kind = "" THEN <<>>
          ELSE LET e == IF org # "" THEN _add_organization_tag(Head(b), org)
                        ELSE Head(b)
               IN <<[e EXCEPT !.request = TransactionRequest(Head(b))]>>)
         \o _to_transaction_bundle(Tail(b), org)

----------------------------------------------------------------------------
(* The normaliser on converter output: bounded inputs *)

MaxEntries == 3

Ids == <<"a", "b", "c", "d", "e">>

Uuids == <<"u1", "u2", "u3", "u4", "u5">>

\* the patient id handed to add_identifiers_to_bundle
PatientId == "pat-1"

\* kind and discriminating fields of the generated records
Profiles ==
    { <<"Encounter", "", "2023-03-21", "">>,
      <<"Encounter", "", "2023-03-21T09:30:00", "">>,
      <<"Condition", "I10", "2023-03-21", "">>,
      <<"Condition", "I10", "", "2023-03-21T09:30:00">>,
      <<"Condition", "I10", "2023-03-28", "">>,
      <<"MedicationStatement", "1049502", "", "">>,
      <<"Composition", "", "2023-03-21", "">>,
      <<"Observation", "I10", "2023-03-21", "">> }

UrlForms == {"missing", "abs", "urn"}

RawFullUrl(form, k, i) ==
    CASE form = "missing" -> NoRef
      [] form = "abs" -> AbsRef(k, Ids[i])
      [] OTHER -> UrnRef(Uuids[i])

\* a converter bundle: entry i has local id Ids[i]; one entry (src) carries a
\* reference to entry tgt, written as ResourceType/id or as tgt's fullUrl,
\* simple or nested.
RawBundle(n, prof, form, src, tgt, byUrl, nested) ==
    [i \in 1..n |->
        MkEntry(RawFullUrl(form, prof[i][1], i), prof[i][1], Ids[i],
                prof[i][2], prof[i][3], prof[i][4],
                RelRef("Patient", "p0"),
                IF i = src
                THEN <<Slot("ref", nested,
                            IF byUrl /\ form # "missing"
                            THEN RawFullUrl(form, prof[tgt][1], tgt)
                            ELSE RelRef(prof[tgt][1], Ids[tgt]))>>
                ELSE <<>>)]

RawBundles ==
    { RawBundle(n, prof, form, src, tgt, byUrl, nested) :
        n \in {MaxEntries}, prof \in [1..MaxEntries -> Profiles],
        form \in UrlForms, src \in {1, MaxEntries}, tgt \in 1..MaxEntries,
        byUrl \in BOOLEAN, nested \in BOOLEAN }

IdsInit ==
    /\ NoCall
    /\ bundle \in RawBundles
    /\ raw = <<>>
    /\ ensured = <<>>
    /\ idWarnings = <<>>
    /\ tx = <<>>
    /\ phase = "raw"
    /\ persons = {}
    /\ patients = {}
    /\ nextId = 1
    /\ mt = <<>>
    /\ calls = 0
    /\ request = NoImportRequest
    /\ pc = "off"
    /\ run = 0
    /\ warnings = <<>>
    /\ errors = <<>>
    /\ match_result = NoResult
    /\ resources = {}
    /\ storeLog = <<>>
    /\ txResult = <<>>
    /\ response = NoResponse
    /\ history = <<>>
    /\ converted = ""
    /\ pre = NoStore

\* process_import, line 138
EnsureFullUrls ==
    /\ phase = "raw"
    /\ raw' = bundle
    /\ bundle' = _ensure_all_fullurls_and_remap_references(bundle).bundle
    /\ phase' = "ensured"
    /\ UNCHANGED <<pipeVars, callVars, ensured, idWarnings, tx, storeVars, matcherVars>>

AddIdentifiers ==
    /\ phase = "ensured"
    /\ ensured' = bundle
    /\ bundle' = add_identifiers_to_bundle(bundle, PatientId).bundle
    /\ idWarnings' = add_identifiers_to_bundle(bundle, PatientId).warnings
    /\ phase' = "ids"
    /\ UNCHANGED <<pipeVars, callVars, raw, tx, storeVars, matcherVars>>

ToTransaction ==
    /\ phase = "ids"
    /\ tx' = _to_transaction_bundle(bundle, "")
    /\ phase' = "tx"
    /\ UNCHANGED <<pipeVars, callVars, bundle, raw, ensured, idWarnings, storeVars,
                   matcherVars>>

IdsNext == EnsureFullUrls \/ AddIdentifiers \/ ToTransaction

SpecIds == IdsInit /\ [][IdsNext]_vars

----------------------------------------------------------------------------
(* Properties of the normaliser *)

IdsDone == phase \in {"ids", "tx"}

\* the Stable Identifier of the i-th entry handed to add_identifiers_to_bundle
Sid(i) == StableIdentifier(ensured[i], PatientId)

\* entry i is the first of the bundle with its Stable Identifier (or has none)
FirstOfItsKey(i) == Sid(i) = NoIdent \/ \A k \in 1..(i - 1) : Sid(k) # Sid(i)

ExpectedSurvivors == {i \in DOMAIN ensured : FirstOfItsKey(i)}

\* the first entry with the Stable Identifier of entry j
KeeperOf(j) ==
    CHOOSE k \in DOMAIN ensured :
        Sid(k) = Sid(j) /\ \A l \in 1..(k - 1) : Sid(l) # Sid(j)

\* entry j shares its Stable Identifier with an entry of another local id
InDuplicateGroup(j) ==
    /\ Sid(j) # NoIdent
    /\ \E k \in DOMAIN ensured :
          k # j /\ Sid(k) = Sid(j) /\ ensured[k].id # ensured[j].id

\* where the surviving entry i stands in the output
OutPos(i) == Cardinality({k \in ExpectedSurvivors : k <= i})

\* reference string r names entry j, by fullUrl or by ResourceType/id
Names(r, j) ==
    \/ r = ensured[j].fullUrl /\ r # NoRef
    \/ r = RelRef(ensured[j].kind, ensured[j].id)

\* C1: duplicate collapse.  Of the entries of one kind that yield the same
\* Stable Identifier under different local ids exactly the first one remains
\* in the bundle returned by add_identifiers_to_bundle, and every reference of
\* the returned bundle that named one of them (by fullUrl or by
\* ResourceType/id) is the surviving entry's fullUrl.
C1_DuplicateCollapse ==
    IdsDone =>
        /\ Len(bundle) = Cardinality(ExpectedSurvivors)
        /\ \A i \in ExpectedSurvivors :
              /\ bundle[OutPos(i)].kind = ensured[i].kind
              /\ bundle[OutPos(i)].id = ensured[i].id
              /\ bundle[OutPos(i)].fullUrl = ensured[i].fullUrl
        /\ \A j \in DOMAIN ensured :
              InDuplicateGroup(j) =>
                 Cardinality({p \in DOMAIN bundle :
                     \E k \in DOMAIN ensured :
                        /\ Sid(k) = Sid(j)
                        /\ bundle[p].kind = ensured[k].kind
                        /\ bundle[p].id = ensured[k].id}) = 1
        /\ \A i \in ExpectedSurvivors : \A n \in DOMAIN ensured[i].refs :
              \A j \in DOMAIN ensured :
                 (InDuplicateGroup(j) /\ Names(ensured[i].refs[n].ref, j)) =>
                    bundle[OutPos(i)].refs[n].ref = ensured[KeeperOf(j)].fullUrl

\* a dropped duplicate was referenced from a surviving entry through a nested
\* reference, which now is the fullUrl of the entry that was kept
C1_Witness ==
    /\ phase = "ids"
    /\ \E i \in ExpectedSurvivors : \E j \in DOMAIN ensured :
          /\ InDuplicateGroup(j) /\ ~FirstOfItsKey(j)
          /\ ensured[i].refs # <<>>
          /\ ensured[i].refs[1].nested
          /\ Names(ensured[i].refs[1].ref, j)
          /\ bundle[OutPos(i)].refs[1].ref = ensured[KeeperOf(j)].fullUrl
          /\ bundle[OutPos(i)].refs[1].ref # ensured[i].refs[1].ref
          /\ Len(bundle) < Len(ensured)

\* C10: write-instruction policy.  In the transaction bundle every Encounter
\* is an unconditional create (POST Encounter) and every other entry that
\* carries a Stable Identifier is a conditional upsert keyed by it
\* (PUT <kind>?identifier=<system>|<value>).
C10_WritePolicy ==
    phase = "tx" =>
        \A p \in DOMAIN tx :
           /\ tx[p].kind = "Encounter" =>
                 tx[p].request = [method |-> "POST", url |-> <<"Encounter">>]
           /\ (tx[p].kind # "Encounter" /\ tx[p].identifier # <<>>) =>
                 tx[p].request =
                    create_conditional_request(tx[p].kind, tx[p].identifier[1])

----------------------------------------------------------------------------
(* matching/patient_matcher.py: PatientMatcher over the identity store *)

MaxCalls == 3

Procs == {1, 2}

\* PatientDemographics: the fields the search uses
Demographics(g, f, b) == [given_name |-> g, family_name |-> f, birth_date |-> b]

Demos == { Demographics("Elkind", "Testpatientone", "1980-12-23"),
           Demographics("Elkind", "Testpatientone", "1975-01-01") }

Orgs == {"org-1", "org-2"}

\* MatchStatus
EXISTING_PERSON_EXISTING_PATIENT == "existing_person_existing_patient"

EXISTING_PERSON_NEW_PATIENT == "existing_person_new_patient"

NEW_PERSON_NEW_PATIENT == "new_person_new_patient"

MULTIPLE_MATCHES == "multiple_matches"

MATCH_FAILED == "match_failed"

NoPerson == [id |-> 0, demo |-> Demographics("", "", ""), link |-> {}]

\* _search_person_by_demographics: GET Person?given=&family=&birthdate=
_search_person_by_demographics(ps, demo) == {x \in ps : x.demo = demo}

\* fhir_client.patients.find_or_create_for_person_and_organization, as the
\* matcher relies on it: the Patient of the Person in the organization if the
\* store has one, otherwise a new Patient that is linked from the Person.
find_or_create_for_person_and_organization(ps, pts, nid, person, org) ==
    LET have == {x \in pts : x.person = person.id /\ x.org = org}
    IN IF have # {}
       THEN [persons |-> ps, patients |-> pts, nextId |-> nid,
             patient |-> (CHOOSE x \in have : \A y \in have : x.id <= y.id).id,
             created |-> FALSE]
       ELSE [persons |-> {IF x.id = person.id
                          THEN [x EXCEPT !.link = @ \cup {nid}] ELSE x : x \in ps},
             patients |-> pts \cup {[id |-> nid, person |-> person.id, org |-> org]},
             nextId |-> nid + 1,
             patient |-> nid,
             created |-> TRUE]

IdleCall ==
    [pc |-> "idle", demo |-> Demographics("", "", ""), org |-> "",
     person |-> NoPerson, result |-> NoResult, ops |-> <<>>,
     prePersons |-> {}, prePatients |-> {}]

\* match_or_create(demographics, organization_id) is called
MatcherCall(p, demo, org) ==
    /\ mt[p].pc \in {"idle", "done", "raised"}
    /\ calls < MaxCalls
    /\ calls' = calls + 1
    /\ mt' = [mt EXCEPT ![p] = [IdleCall EXCEPT !.pc = "search", !.demo = demo,
                                   !.org = org, !.prePersons = persons,
                                   !.prePatients = patients]]
    /\ UNCHANGED <<pipeVars, callVars, storeVars, idsVars>>

\* MatcherSearch that takes the first Person when several match
MatcherSearch_FirstMatch(p) ==
    /\ mt[p].pc = "search"
    /\ LET found == _search_person_by_demographics(persons, mt[p].demo)
           ops1 == Append(mt[p].ops, [op |-> "Person.search", id |-> 0])
       IN mt' = [mt EXCEPT ![p] =
            IF Cardinality(found) >= 1
            THEN [@ EXCEPT !.pc = "find", !.ops = ops1,
                           !.person = CHOOSE x \in found :
                                         \A y \in found : x.id <= y.id]
            ELSE [@ EXCEPT !.pc = "create_person", !.ops = ops1]]
    /\ UNCHANGED <<pipeVars, callVars, storeVars, calls, idsVars>>

\* MatcherSearch that merges the Persons when several match: the first is
\* kept, the others are deleted
MatcherSearch_Merge(p) ==
    /\ mt[p].pc = "search"
    /\ LET found == _search_person_by_demographics(persons, mt[p].demo)
           ops1 == Append(mt[p].ops, [op |-> "Person.search", id |-> 0])
           first == CHOOSE x \in found : \A y \in found : x.id <= y.id
       IN /\ mt' = [mt EXCEPT ![p] =
               IF Cardinality(found) >= 1
               THEN [@ EXCEPT !.pc = "find", !.ops = ops1, !.person = first]
               ELSE [@ EXCEPT !.pc = "create_person", !.ops = ops1]]
          /\ persons' = IF Cardinality(found) > 1
                        THEN (persons \ found) \cup {first} ELSE persons
    /\ UNCHANGED <<pipeVars, callVars, patients, nextId, calls, idsVars>>

\* lines 105-117 and 154: the search returns and the code branches on the
\* number of Persons found
MatcherSearch(p) ==
    /\ mt[p].pc = "search"
    /\ LET found == _search_person_by_demographics(persons, mt[p].demo)
           ops1 == Append(mt[p].ops, [op |-> "Person.search", id |-> 0])
       IN mt' = [mt EXCEPT ![p] =
            IF Cardinality(found) > 1
            THEN [@ EXCEPT !.pc = "done", !.ops = ops1,
                           !.result = MatchResult(MULTIPLE_MATCHES, 0, 0, FALSE,
                                         FALSE, <<"Manual resolution required">>)]
            ELSE IF Cardinality(found) = 1
            THEN [@ EXCEPT !.pc = "find", !.ops = ops1,
                           !.person = CHOOSE x \in found : TRUE]
            ELSE [@ EXCEPT !.pc = "create_person", !.ops = ops1]]
    /\ UNCHANGED <<pipeVars, callVars, storeVars, calls, idsVars>>

\* PatientExisted that only asks whether the Person has any link
PatientExisted_AnyLink(person, patient) == person.link # {}

\* lines 128-131: is Patient/<patient.id> among the links of the Person
\* object the search returned
PatientExisted(person, patient) == patient \in person.link

\* MatcherFindPatient that creates a Patient without looking for one
MatcherFindPatient_AlwaysCreate(p) ==
    /\ mt[p].pc = "find"
    /\ persons' = {IF x.id = mt[p].person.id
                   THEN [x EXCEPT !.link = @ \cup {nextId}] ELSE x : x \in persons}
    /\ patients' = patients \cup
          {[id |-> nextId, person |-> mt[p].person.id, org |-> mt[p].org]}
    /\ nextId' = nextId + 1
    /\ mt' = [mt EXCEPT ![p] = [@ EXCEPT !.pc = "done",
          !.ops = Append(@, [op |-> "Patient.create", id |-> nextId]),
          !.result = MatchResult(EXISTING_PERSON_NEW_PATIENT, mt[p].person.id,
                        nextId, FALSE, TRUE,
                        <<"Created new Patient for existing Person in organization">>)]]
    /\ UNCHANGED <<pipeVars, callVars, calls, idsVars>>

\* lines 117-152: one match; find-or-create the Patient, then report
MatcherFindPatient(p) ==
    /\ mt[p].pc = "find"
    /\ LET r == find_or_create_for_person_and_organization(
                   persons, patients, nextId, mt[p].person, mt[p].org)
           ops1 == Append(mt[p].ops,
                     [op |-> IF r.created THEN "Patient.create" ELSE "Patient.find",
                      id |-> r.patient])
       IN /\ persons' = r.persons
          /\ patients' = r.patients
          /\ nextId' = r.nextId
          /\ mt' = [mt EXCEPT ![p] = [@ EXCEPT !.pc = "done", !.ops = ops1,
                !.result =
                   IF PatientExisted(mt[p].person, r.patient)
                   THEN MatchResult(EXISTING_PERSON_EXISTING_PATIENT,
                           mt[p].person.id, r.patient, FALSE, FALSE, <<>>)
                   ELSE MatchResult(EXISTING_PERSON_NEW_PATIENT,
                           mt[p].person.id, r.patient, FALSE, TRUE,
                           <<"Created new Patient for existing Person in organization">>)]]
    /\ UNCHANGED <<pipeVars, callVars, calls, idsVars>>

\* lines 154-156 and _create_person: no match; the Person is created
MatcherCreatePerson(p) ==
    /\ mt[p].pc = "create_person"
    /\ LET new == [id |-> nextId, demo |-> mt[p].demo, link |-> {}]
       IN /\ persons' = persons \cup {new}
          /\ nextId' = nextId + 1
          /\ mt' = [mt EXCEPT ![p] = [@ EXCEPT !.pc = "find_new", !.person = new,
                !.ops = Append(@, [op |-> "Person.create", id |-> nextId])]]
    /\ UNCHANGED <<pipeVars, callVars, patients, calls, idsVars>>

\* lines 158-174: the Patient of the new Person
MatcherCreatePatient(p) ==
    /\ mt[p].pc = "find_new"
    /\ LET r == find_or_create_for_person_and_organization(
                   persons, patients, nextId, mt[p].person, mt[p].org)
           ops1 == Append(mt[p].ops,
                     [op |-> IF r.created THEN "Patient.create" ELSE "Patient.find",
                      id |-> r.patient])
       IN /\ persons' = r.persons
          /\ patients' = r.patients
          /\ nextId' = r.nextId
          /\ mt' = [mt EXCEPT ![p] = [@ EXCEPT !.pc = "done", !.ops = ops1,
                !.result = MatchResult(NEW_PERSON_NEW_PATIENT, mt[p].person.id,
                              r.patient, TRUE, TRUE,
                              <<"Created new Person and Patient resources">>)]]
    /\ UNCHANGED <<pipeVars, callVars, calls, idsVars>>

\* a store request fails (raise_for_status, HTTP error): the call raises
MatcherRaise(p) ==
    /\ mt[p].pc \in {"search", "find", "create_person", "find_new"}
    /\ mt' = [mt EXCEPT ![p] = [@ EXCEPT !.pc = "raised"]]
    /\ UNCHANGED <<pipeVars, callVars, storeVars, calls, idsVars>>

\* Stores the resolver may start from: Persons (possibly two with the same
\* demographics, registered by other systems), each Patient linked from
\* its Person.
D1 == Demographics("Elkind", "Testpatientone", "1980-12-23")

InitialStores ==
    { [persons |-> {}, patients |-> {}, nextId |-> 1],
      [persons |-> {[id |-> 1, demo |-> D1, link |-> {}]},
       patients |-> {}, nextId |-> 2],
      [persons |-> {[id |-> 1, demo |-> D1, link |-> {2}]},
       patients |-> {[id |-> 2, person |-> 1, org |-> "org-1"]}, nextId |-> 3],
      [persons |-> {[id |-> 1, demo |-> D1, link |-> {}],
                    [id |-> 2, demo |-> D1, link |-> {}]},
       patients |-> {}, nextId |-> 3] }

MatcherInit ==
    /\ NoCall
    /\ \E st \in InitialStores :
          /\ persons = st.persons
          /\ patients = st.patients
          /\ nextId = st.nextId
    /\ mt = [p \in Procs |-> IdleCall]
    /\ calls = 0
    /\ bundle = <<>>
    /\ raw = <<>>
    /\ ensured = <<>>
    /\ idWarnings = <<>>
    /\ tx = <<>>
    /\ phase = "off"
    /\ request = NoImportRequest
    /\ pc = "off"
    /\ run = 0
    /\ warnings = <<>>
    /\ errors = <<>>
    /\ match_result = NoResult
    /\ resources = {}
    /\ storeLog = <<>>
    /\ txResult = <<>>
    /\ response = NoResponse
    /\ history = <<>>
    /\ converted = ""
    /\ pre = NoStore

\* one caller: the calls follow one another
MatcherNext ==
    \/ \E demo \in Demos, org \in Orgs : MatcherCall(1, demo, org)
    \/ MatcherSearch(1)
    \/ MatcherFindPatient(1)
    \/ MatcherCreatePerson(1)
    \/ MatcherCreatePatient(1)
    \/ MatcherRaise(1)

SpecMatcher == MatcherInit /\ [][MatcherNext]_vars

----------------------------------------------------------------------------
(* Properties of the identity resolver *)

\* the number of Persons with the call's demographics when the call began
MatchCount(c) ==
    Cardinality(_search_person_by_demographics(c.prePersons, c.demo))

IdsOf(S) == {x.id : x \in S}

OpsNamed(c, name) == {k \in DOMAIN c.ops : c.ops[k].op = name}

\* C6: the resolver's transition rule.  A call that returns ends in one of
\* the four states, decided by the number n of Persons the search finds:
\* n = 0: a Person is created, then a Patient for it, and the result is
\* new-person+new-patient with both created flags set; n = 1: no Person is
\* created and the result is existing-person with an existing or new Patient;
\* n > 1: multiple-matches, no ids, no create operation issued.
C6_TransitionRule ==
    LET c == mt[1]
        r == c.result
        n == MatchCount(c)
    IN c.pc = "done" =>
        /\ r.status \in {EXISTING_PERSON_EXISTING_PATIENT,
                         EXISTING_PERSON_NEW_PATIENT,
                         NEW_PERSON_NEW_PATIENT, MULTIPLE_MATCHES}
        /\ n = 0 =>
              /\ r.status = NEW_PERSON_NEW_PATIENT
              /\ r.person_created /\ r.patient_created
              /\ c.ops = <<[op |-> "Person.search", id |-> 0],
                           [op |-> "Person.create", id |-> r.person_id],
                           [op |-> "Patient.create", id |-> r.patient_id]>>
              /\ r.person_id \in IdsOf(persons) \ IdsOf(c.prePersons)
              /\ [id |-> r.patient_id, person |-> r.person_id, org |-> c.org]
                    \in patients \ c.prePatients
        /\ n = 1 =>
              /\ r.status \in {EXISTING_PERSON_EXISTING_PATIENT,
                               EXISTING_PERSON_NEW_PATIENT}
              /\ ~r.person_created
              /\ OpsNamed(c, "Person.create") = {}
              /\ IdsOf(persons) = IdsOf(c.prePersons)
              /\ r.person_id \in
                    IdsOf(_search_person_by_demographics(c.prePersons, c.demo))
              /\ [id |-> r.patient_id, person |-> r.person_id, org |-> c.org]
                    \in patients
        /\ n > 1 =>
              /\ r.status = MULTIPLE_MATCHES
              /\ r.person_id = 0 /\ r.patient_id = 0
              /\ c.ops = <<[op |-> "Person.search", id |-> 0]>>
              /\ persons = c.prePersons /\ patients = c.prePatients

\* a call on a store without a matching Person has returned
C6_Witness ==
    /\ mt[1].pc = "done"
    /\ MatchCount(mt[1]) = 0
    /\ mt[1].result.status = NEW_PERSON_NEW_PATIENT
    /\ Len(mt[1].ops) = 3

\* C7: with exactly one Person match the call reports an existing Patient
\* (patient_created false) exactly when the Patient it returns was in the
\* target organization before the call, and a new Patient (patient_created
\* true) exactly when the call created it.
C7_ExistingVersusNew ==
    LET c == mt[1]
        r == c.result
        before == \E x \in c.prePatients :
                     x.id = r.patient_id /\ x.org = c.org
    IN (c.pc = "done" /\ MatchCount(c) = 1) =>
        /\ r.patient_created <=> ~before
        /\ r.patient_created <=> r.patient_id \notin IdsOf(c.prePatients)
        /\ r.status = EXISTING_PERSON_EXISTING_PATIENT <=> ~r.patient_created
        /\ r.status = EXISTING_PERSON_NEW_PATIENT <=> r.patient_created

\* the matched Person already had a Patient, in another organization, and
\* the call created one for the target organization
C7_Witness ==
    /\ mt[1].pc = "done"
    /\ MatchCount(mt[1]) = 1
    /\ mt[1].person.link # {}
    /\ mt[1].result.status = EXISTING_PERSON_NEW_PATIENT
    /\ mt[1].result.patient_id \notin IdsOf(mt[1].prePatients)

\* C8: after any sequence of match_or_create calls the store holds at most
\* one Patient per (Person, Organization) pair.
C8_OnePatientPerPersonAndOrg ==
    \A x \in patients : \A y \in patients :
        (x.person = y.person /\ x.org = y.org) => x.id = y.id

\* a repeated call for the same subject and organization has returned the
\* Patient the earlier call created
C8_Witness ==
    /\ calls >= 2
    /\ mt[1].pc = "done"
    /\ mt[1].result.status = EXISTING_PERSON_EXISTING_PATIENT
    /\ mt[1].result.patient_id \in IdsOf(mt[1].prePatients)
    /\ mt[1].prePatients = patients

\* C9 as stated: across a call every Person that existed before it is still
\* there unchanged, and the call creates at most one Person, on the zero-match
\* path only.
C9_PersonsUnchanged ==
    LET c == mt[1]
    IN c.pc # "idle" =>
        /\ c.prePersons \subseteq persons
        /\ Cardinality(persons \ c.prePersons) <= 1
        /\ persons # c.prePersons => MatchCount(c) = 0

\* C9 (amended): the resolver never deletes or merges Persons.  Every Person
\* that existed before a call still exists with the same id and demographics;
\* the only change to it is, on the one-match path, one more link, to the
\* Patient created for it in the target organization.  The only Person a call
\* adds is one new Person with the call's demographics on the zero-match path,
\* and the matcher issues no other Person-affecting operation.
C9_NoDeleteNoMerge ==
    LET c == mt[1]
        n == MatchCount(c)
        added == {y \in persons : y.id \notin IdsOf(c.prePersons)}
    IN c.pc # "idle" =>
        /\ \A x \in c.prePersons : \E y \in persons :
              /\ y.id = x.id /\ y.demo = x.demo
              /\ x.link \subseteq y.link
              /\ y.link # x.link =>
                    /\ n = 1 /\ x.demo = c.demo
                    /\ \E q \in patients \ c.prePatients :
                          /\ y.link = x.link \cup {q.id}
                          /\ q.person = x.id /\ q.org = c.org
        /\ Cardinality(persons) = Cardinality(IdsOf(persons))
        /\ Cardinality(added) <= 1
        /\ added # {} => (n = 0 /\ \A y \in added : y.demo = c.demo)
        /\ Cardinality(OpsNamed(c, "Person.create")) = Cardinality(added)

\* a call that matched one Person, which already had a link, has returned
\* after creating a Patient for it
C9_Witness ==
    /\ mt[1].pc = "done"
    /\ MatchCount(mt[1]) = 1
    /\ mt[1].result.patient_created
    /\ \E x \in mt[1].prePersons : x.link # {} /\ x \notin persons

----------------------------------------------------------------------------
(* transform/r4_to_r5: transform_bundle *)

RESOURCE_TRANSFORMERS ==
    {"Patient", "Condition", "MedicationStatement", "AllergyIntolerance",
     "Immunization", "Observation", "Encounter", "Composition", "Organization"}

\* transform_encounter on the reference fields: reasonReference and
\* diagnosis.condition become CodeableReferences ({"reference": Reference})
transform_encounter(rs) ==
    [n \in DOMAIN rs |->
        CASE rs[n].field = "reasonReference" ->
                [rs[n] EXCEPT !.field = "reason", !.nested = TRUE]
          [] rs[n].field = "diagnosis.condition" ->
                [rs[n] EXCEPT !.nested = TRUE]
          [] OTHER -> rs[n]]

\* transform_medication_statement on the reference fields: only the listed
\* fields are copied; context becomes encounter unless encounter is there;
\* medicationReference and reasonReference become CodeableReferences
transform_medication_statement(rs) ==
    LET hasEncounter == \E n \in DOMAIN rs : rs[n].field = "encounter"
        copied == SelectSeq(rs, LAMBDA s :
                     \/ s.field \in {"encounter", "informationSource",
                                     "medicationReference", "reasonReference",
                                     "derivedFrom", "partOf", "basedOn"}
                     \/ s.field = "context" /\ ~hasEncounter)
    IN [n \in DOMAIN copied |->
          CASE copied[n].field = "context" ->
                  [copied[n] EXCEPT !.field = "encounter"]
            [] copied[n].field = "medicationReference" ->
                  [copied[n] EXCEPT !.field = "medication", !.nested = TRUE]
            [] copied[n].field = "reasonReference" ->
                  [copied[n] EXCEPT !.field = "reason", !.nested = TRUE]
            [] copied[n].field = "basedOn" ->
                  [copied[n] EXCEPT !.field = "relatedClinicalInformation"]
            [] OTHER -> copied[n]]

\* RESOURCE_TRANSFORMERS[kind](resource), for a record the transformer accepts
Transformer(e) ==
    CASE e.kind = "Encounter" -> [e EXCEPT !.refs = transform_encounter(@)]
      [] e.kind = "MedicationStatement" ->
            [e EXCEPT !.refs = transform_medication_statement(@)]
      [] OTHER -> e

\* a normalisation that leaves a single value as it is
_normalize_array_fields_Keep(e) == e

\* _normalize_array_fields: a single value in one of ARRAY_FIELDS is
\* wrapped into a list
_normalize_array_fields(e) ==
    [e EXCEPT !.note = IF @ = "object" THEN "list" ELSE @]

\* the loop of transform_bundle that emits an entry as it came when its
\* transformer raises
RECURSIVE TransformEntries_KeepFailed(_, _)
TransformEntries_KeepFailed(b, i) ==
    IF i > Len(b) THEN [out |-> <<>>, warnings |-> <<>>]
    ELSE LET e == b[i]
             rest == TransformEntries_KeepFailed(b, i + 1)
         IN IF e.kind = ""
            THEN [out |-> rest.out,
                  warnings |-> <<Warn("Entry missing resourceType, skipping",
                                      <<>>, 0, NoRef)>> \o rest.warnings]
            ELSE IF e.kind \in RESOURCE_TRANSFORMERS /\ e.malformed
            THEN [out |-> <<e>> \o rest.out,
                  warnings |-> <<Warn("Failed to transform", <<e.kind>>,
                                      0, NoRef)>> \o rest.warnings]
            ELSE IF e.kind \in RESOURCE_TRANSFORMERS
            THEN [out |-> <<_normalize_array_fields(Transformer(e))>>
                          \o rest.out,
                  warnings |-> rest.warnings]
            ELSE [out |-> <<_normalize_array_fields(e)>> \o rest.out,
                  warnings |-> rest.warnings]

\* the loop of transform_bundle (lines 62-112): entries without resourceType
\* are skipped, an entry whose transformer raises is left out, each with a
\* warning; kinds without transformer pass through; array fields are
\* normalised on both paths
RECURSIVE TransformEntries(_, _)
TransformEntries(b, i) ==
    IF i > Len(b) THEN [out |-> <<>>, warnings |-> <<>>]
    ELSE LET e == b[i]
             rest == TransformEntries(b, i + 1)
         IN IF e.kind = ""
            THEN [out |-> rest.out,
                  warnings |-> <<Warn("Entry missing resourceType, skipping",
                                      <<>>, 0, NoRef)>> \o rest.warnings]
            ELSE IF e.kind \in RESOURCE_TRANSFORMERS /\ e.malformed
            THEN [out |-> rest.out,
                  warnings |-> <<Warn("Failed to transform", <<e.kind>>,
                                      0, NoRef)>> \o rest.warnings]
            ELSE IF e.kind \in RESOURCE_TRANSFORMERS
            THEN [out |-> <<_normalize_array_fields(Transformer(e))>>
                          \o rest.out,
                  warnings |-> rest.warnings]
            ELSE [out |-> <<_normalize_array_fields(e)>> \o rest.out,
                  warnings |-> rest.warnings]

\* the encounter back-reference fields _clean_orphaned_encounter_refs visits
EncounterFields == {"encounter", "context", "context.encounter"}

\* enc_id_to_fullurl (lines 185-197), the "Encounter/<id>" keys
RECURSIVE enc_id_to_fullurl(_, _, _)
enc_id_to_fullurl(b, i, m) ==
    IF i > Len(b) THEN m
    ELSE enc_id_to_fullurl(b, i + 1,
            IF b[i].kind = "Encounter" /\ b[i].fullUrl # NoRef /\ b[i].id # ""
            THEN Put(m, RelRef("Encounter", b[i].id), b[i].fullUrl) ELSE m)

\* valid_encounter_refs (lines 192-200)
valid_encounter_refs(b) ==
    {b[i].fullUrl : i \in {k \in DOMAIN b :
                             b[k].kind = "Encounter" /\ b[k].fullUrl # NoRef}}
    \cup {RelRef("Encounter", b[i].id) :
             i \in {k \in DOMAIN b : b[k].kind = "Encounter"
                                     /\ b[k].fullUrl = NoRef /\ b[k].id # ""}}

\* process_reference (lines 216-257): what happens to one reference
process_reference(m, valid, r) ==
    IF r = NoRef THEN "keep"
    ELSE IF StartsWithEncounter(r) /\ r \in DOMAIN m THEN "convert"
    ELSE IF (StartsWithEncounter(r) \/ IsUrn(r)) /\ r \notin valid THEN "delete"
    ELSE "keep"

\* what the loop of lines 259-293 does with one reference field of an entry
SlotFate(m, valid, e, s) ==
    IF e.kind # "Encounter" /\ s.field \in EncounterFields /\ ~s.nested
    THEN process_reference(m, valid, s.ref) ELSE "keep"

CleanEntry(m, valid, e) ==
    LET left == SelectSeq(e.refs, LAMBDA s : SlotFate(m, valid, e, s) # "delete")
    IN [e EXCEPT !.refs =
          [n \in DOMAIN left |->
              IF SlotFate(m, valid, e, left[n]) = "convert"
              THEN [left[n] EXCEPT !.ref = m[@]] ELSE left[n]]]

\* number of reference fields of the bundle with the given fate
FateCount(m, valid, b, fate) ==
    LET hit(i) == {n \in DOMAIN b[i].refs :
                      SlotFate(m, valid, b[i], b[i].refs[n]) = fate}
        RECURSIVE Sum(_)
        Sum(i) == IF i > Len(b) THEN 0 ELSE Cardinality(hit(i)) + Sum(i + 1)
    IN Sum(1)

\* total_refs_checked: the visited references that start with "Encounter/"
\* or "urn:uuid:"
RefsChecked(b) ==
    LET hit(i) == {n \in DOMAIN b[i].refs :
                      /\ b[i].kind # "Encounter"
                      /\ b[i].refs[n].field \in EncounterFields
                      /\ ~b[i].refs[n].nested
                      /\ \/ StartsWithEncounter(b[i].refs[n].ref)
                         \/ IsUrn(b[i].refs[n].ref)}
        RECURSIVE Sum(_)
        Sum(i) == IF i > Len(b) THEN 0 ELSE Cardinality(hit(i)) + Sum(i + 1)
    IN Sum(1)

\* _clean_orphaned_encounter_refs (lines 167-316): the bundle after it and
\* its warnings (the per-field sample lines are left out)
_clean_orphaned_encounter_refs(b) ==
    LET m == enc_id_to_fullurl(b, 1, EmptyMap)
        valid == valid_encounter_refs(b)
        encs == SelectSeq(b, LAMBDA e : e.kind = "Encounter")
        bare == SelectSeq(encs, LAMBDA e : e.fullUrl = NoRef /\ e.id # "")
        converted_count == FateCount(m, valid, b, "convert")
        orphaned_count == FateCount(m, valid, b, "delete")
    IN [bundle |-> [i \in DOMAIN b |-> CleanEntry(m, valid, b[i])],
        warnings |->
           [n \in DOMAIN bare |->
               Warn("Encounter has no fullUrl - will use Encounter/id format",
                    <<bare[n].id>>, 0, NoRef)]
           \o <<Warn("Encounter ref cleanup", <<>>, Len(encs), NoRef),
                Warn("Checked encounter refs", <<>>, RefsChecked(b), NoRef)>>
           \o (IF converted_count > 0
               THEN <<Warn("Converted encounter references to fullUrl format",
                           <<>>, converted_count, NoRef)>> ELSE <<>>)
           \o (IF orphaned_count > 0
               THEN <<Warn("Removed orphaned encounter references",
                           <<>>, orphaned_count, NoRef)>> ELSE <<>>)]

\* transform_bundle(r4_bundle): the R5 bundle and the warnings
transform_bundle(b) ==
    LET t == TransformEntries(b, 1)
        c == _clean_orphaned_encounter_refs(t.out)
    IN [bundle |-> c.bundle, warnings |-> t.warnings \o c.warnings]

----------------------------------------------------------------------------
(* import_/gateway.py: the helpers of process_import *)

\* _filter_nkda_allergies: an AllergyIntolerance without coding and without
\* meaningful text (code = "") is removed
_filter_nkda_allergies(b) ==
    LET left == SelectSeq(b, LAMBDA e :
                    ~(e.kind = "AllergyIntolerance" /\ e.code = ""))
    IN [bundle |-> left, count |-> Len(b) - Len(left)]

_set_patient_organization(b, org) ==
    [i \in DOMAIN b |->
        IF b[i].kind = "Patient" THEN [b[i] EXCEPT !.org = org] ELSE b[i]]

\* _extract_patient_demographics: from the first Patient of the bundle;
\* NoDemo is None
_extract_patient_demographics(b) ==
    LET ps == SelectSeq(b, LAMBDA e : e.kind = "Patient")
    IN IF ps = <<>> THEN NoDemo
       ELSE IF ps[1].demo.given_name = "" \/ ps[1].demo.family_name = ""
               \/ ps[1].demo.birth_date = ""
       THEN NoDemo
       ELSE ps[1].demo

\* the ids the store assigns, as they are written in reference strings
IdStr == <<"id-1", "id-2", "id-3", "id-4", "id-5", "id-6", "id-7", "id-8",
           "id-9", "id-10", "id-11", "id-12", "id-13", "id-14", "id-15",
           "id-16", "id-17", "id-18", "id-19", "id-20", "id-21", "id-22",
           "id-23", "id-24", "id-25", "id-26", "id-27", "id-28", "id-29",
           "id-30", "id-31", "id-32", "id-33", "id-34", "id-35", "id-36">>

\* str(match_result.patient_id)
StoreId(n) == IdStr[n]

\* old_refs_to_replace of _update_patient_references (lines 700-718)
OldPatientRefs(b) ==
    UNION { ({b[i].fullUrl} \ {NoRef})
            \cup (IF b[i].id # ""
                  THEN {RelRef("Patient", b[i].id), UrnRef(b[i].id)} ELSE {})
            : i \in {k \in DOMAIN b : b[k].kind = "Patient"} }

\* _replace_references over one entry, for all the old references
ReplaceReferences(e, old, new) ==
    [e EXCEPT !.subject = IF @ \in old THEN new ELSE @,
              !.refs = [n \in DOMAIN @ |->
                          IF @[n].ref \in old THEN [@[n] EXCEPT !.ref = new]
                          ELSE @[n]]]

\* _update_patient_references(bundle, patient_id): the Patient entries are
\* removed and every reference to them names the matched Patient
_update_patient_references(b, pid) ==
    LET old == OldPatientRefs(b)
        left == SelectSeq(b, LAMBDA e : e.kind # "Patient")
    IN [i \in DOMAIN left |->
           ReplaceReferences(left[i], old, RelRef("Patient", pid))]

\* tag_bundle_for_import(bundle, source_system, patient_id): every record
\* gets the import-source tag that delete_imported_resources searches for
tag_bundle_for_import(b, source, pid) ==
    [i \in DOMAIN b |-> [b[i] EXCEPT !.tag = source]]

\* remove_duplicate_resources(bundle): passes 2 and 3 of the normaliser, on
\* the subject the records of the bundle have; the bundle and the number of
\* entries removed
remove_duplicate_resources(b) ==
    LET subs == {b[i].subject.id : i \in DOMAIN b} \ {""}
        pid == IF subs = {} THEN "" ELSE CHOOSE x \in subs : TRUE
        result(r) == [bundle |-> r.bundle, removed |-> Len(b) - Len(r.bundle)]
    IN result(add_identifiers_to_bundle(b, pid))

\* get_import_resource_types(): the kinds with a Stable Identifier rule
get_import_resource_types ==
    <<"Encounter", "Condition", "Composition", "MedicationStatement",
      "Observation">>

----------------------------------------------------------------------------
(* The store behind FHIRStoreService: transactions, search, delete *)

\* a record of the store
Stored(id, e, subj) ==
    [id |-> id, kind |-> e.kind, subject |-> subj, tag |-> e.tag,
     identifier |-> e.identifier, code |-> e.code, date |-> e.date]

\* the records a write instruction addresses: none for POST, the records
\* with the identifier for a conditional PUT, the record with the id for
\* PUT <kind>/<id>
Addressed(res, e) ==
    IF e.request.method # "PUT" THEN {}
    ELSE IF Len(e.request.url) = 4
    THEN {x \in res : /\ x.kind = e.kind
                      /\ \E n \in DOMAIN x.identifier :
                            /\ x.identifier[n].system = e.request.url[3]
                            /\ x.identifier[n].value = e.request.url[4]}
    ELSE {x \in res : x.kind = e.kind /\ x.id = e.request.url[2]}

\* status and id of each entry of a transaction: "201 Created" with a new
\* id, "200 OK" on the record addressed, or "400" for an instruction the
\* store rejects (the positions in rejected)
RECURSIVE Outcomes(_, _, _, _, _)
Outcomes(txb, i, res, nid, rejected) ==
    IF i > Len(txb) THEN <<>>
    ELSE LET e == txb[i]
             hit == Addressed(res, e)
         IN IF i \in rejected
            THEN <<[kind |-> e.kind, status |-> "400", method |-> e.request.method,
                    id |-> "", fresh |-> FALSE]>>
                 \o Outcomes(txb, i + 1, res, nid, rejected)
            ELSE IF hit # {}
            THEN <<[kind |-> e.kind, status |-> "200", method |-> e.request.method,
                    id |-> (CHOOSE x \in hit : TRUE).id, fresh |-> FALSE]>>
                 \o Outcomes(txb, i + 1, res, nid, rejected)
            ELSE IF e.request.method = "PUT" /\ Len(e.request.url) = 2
            THEN <<[kind |-> e.kind, status |-> "201", method |-> "PUT",
                    id |-> e.request.url[2], fresh |-> FALSE]>>
                 \o Outcomes(txb, i + 1, res, nid, rejected)
            ELSE <<[kind |-> e.kind, status |-> "201", method |-> e.request.method,
                    id |-> StoreId(nid), fresh |-> TRUE]>>
                 \o Outcomes(txb, i + 1, res, nid + 1, rejected)

\* patients._execute_bundle(transaction_bundle) when the store answers
\* with a response bundle: the records after it, the next id, the per-entry
\* responses.  The instructions at the positions in rejected fail
\* server-side and write nothing.  References to entries of the transaction
\* are resolved to the ids given.
_execute_bundle(txb, res, nid, rejected) ==
    LET out == Outcomes(txb, 1, res, nid, rejected)
        resolve(r) ==
            IF \E i \in DOMAIN txb \ rejected : txb[i].fullUrl = r /\ r # NoRef
            THEN LET i == CHOOSE k \in DOMAIN txb \ rejected : txb[k].fullUrl = r
                 IN RelRef(txb[i].kind, out[i].id)
            ELSE r
        written == {Stored(out[i].id, txb[i], resolve(txb[i].subject)) :
                       i \in DOMAIN txb \ rejected}
    IN [resources |-> {x \in res : \A y \in written :
                                      ~(y.kind = x.kind /\ y.id = x.id)}
                      \cup written,
        nextId |-> nid + Cardinality({i \in DOMAIN out : out[i].fresh}),
        outcomes |-> [i \in DOMAIN out |->
                        [kind |-> out[i].kind, status |-> out[i].status,
                         method |-> out[i].method]]]

\* delete_imported_resources: the records it finds (search by subject or
\* patient and _tag, per resource type) and deletes
ImportedResources(res, pid, source, types) ==
    {x \in res : /\ \E n \in DOMAIN types : types[n] = x.kind
                 /\ x.subject = RelRef("Patient", pid)
                 /\ x.tag = source}

----------------------------------------------------------------------------
(* import_/gateway.py: process_import, request by request *)

MaxRuns == 2

\* the import-source label of a request without metadata.source_system
\* that is not a CHARM document
SourceSystem == "unknown"

\* the records the converter makes of the sections of a document:
\* <<kind, code, date, date2, malformed>>
PEncounter == <<"Encounter", "", "2023-03-21", "", FALSE>>

PCondition == <<"Condition", "I10", "2023-03-21", "", FALSE>>

PConditionAgain == <<"Condition", "I10", "2023-03-21T09:30:00", "", FALSE>>

PConditionBad == <<"Condition", "I10", "2023-03-21", "", TRUE>>

PNoKnownAllergy == <<"AllergyIntolerance", "", "", "", FALSE>>

PAllergy == <<"AllergyIntolerance", "7980", "", "", FALSE>>

PComposition == <<"Composition", "", "2023-03-21", "", FALSE>>

\* documents: the records after the Patient, and one reference among them,
\* from entry src to entry tgt (tgt = 0: to an Encounter the document lacks)
Shapes ==
    { [prof |-> <<PEncounter, PCondition>>,
       src |-> 3, tgt |-> 2, field |-> "encounter"],
      [prof |-> <<PCondition, PEncounter>>,
       src |-> 3, tgt |-> 2, field |-> "diagnosis.condition"],
      [prof |-> <<PConditionBad, PComposition>>,
       src |-> 3, tgt |-> 2, field |-> "section.entry"],
      [prof |-> <<PNoKnownAllergy, PComposition>>,
       src |-> 3, tgt |-> 2, field |-> "section.entry"],
      [prof |-> <<PAllergy, PComposition>>,
       src |-> 3, tgt |-> 2, field |-> "section.entry"],
      [prof |-> <<PCondition, PConditionAgain, PComposition>>,
       src |-> 4, tgt |-> 3, field |-> "section.entry"],
      [prof |-> <<PCondition>>,
       src |-> 2, tgt |-> 0, field |-> "encounter"] }

\* the bundle the converter returns for a document
ConverterBundle(sh, form, byUrl, demo) ==
    LET kindAt(i) == IF i = 1 THEN "Patient" ELSE sh.prof[i - 1][1]
        nameOf(i) == IF byUrl /\ form # "missing"
                     THEN RawFullUrl(form, kindAt(i), i)
                     ELSE RelRef(kindAt(i), Ids[i])
    IN [i \in 1..(Len(sh.prof) + 1) |->
          IF i = 1
          THEN [MkEntry(RawFullUrl(form, "Patient", 1), "Patient", Ids[1],
                        "", "", "", NoRef, <<>>) EXCEPT !.demo = demo]
          ELSE [MkEntry(RawFullUrl(form, kindAt(i), i), kindAt(i), Ids[i],
                        sh.prof[i - 1][2], sh.prof[i - 1][3], sh.prof[i - 1][4],
                        nameOf(1),
                        IF i = sh.src
                        THEN <<Slot(sh.field, FALSE,
                                    IF sh.tgt = 0 THEN RelRef("Encounter", "x9")
                                    ELSE nameOf(sh.tgt))>>
                        ELSE <<>>)
                EXCEPT !.malformed = sh.prof[i - 1][5]]]

ConverterBundles ==
    { ConverterBundle(sh, form, byUrl, demo) :
        sh \in Shapes, form \in UrlForms, byUrl \in BOOLEAN,
        demo \in {Demographics("Elkind", "Testpatientone", "1980-12-23"),
                  NoDemo} }

\* request.data: whether it decodes (base64, UTF-8), what the XML is
\* ("ok", "malformed", "other_root"), whether the document type and the
\* required sections are found, and the bundle the converter makes of it
Document(dec, xml, complete, r4) ==
    [decodable |-> dec, xml |-> xml, complete |-> complete, r4 |-> r4]

PlainBundle ==
    ConverterBundle([prof |-> <<PEncounter, PCondition>>, src |-> 3,
                     tgt |-> 2, field |-> "encounter"], "missing", FALSE,
                    Demographics("Elkind", "Testpatientone", "1980-12-23"))

ImportRequests ==
    { [format |-> "ccda", org |-> "org-1", data |-> Document(TRUE, "ok", TRUE, d)] :
         d \in ConverterBundles }
    \cup
    { [format |-> f, org |-> o, data |-> Document(dec, xml, c, PlainBundle)] :
         f \in {"ccda", "hl7v2", "fhir-r4"}, o \in {"org-1", ""},
         dec \in BOOLEAN, xml \in {"ok", "malformed", "other_root"},
         c \in BOOLEAN }

\* what an exception raised out of process_import leaves: no response
Raise(exc, msg) ==
    /\ pc' = "aborted"
    /\ response' = [NoResponse EXCEPT !.status = "error", !.error = <<exc, msg>>]
    /\ history' = Append(history,
          [NoResponse EXCEPT !.status = "error", !.error = <<exc, msg>>])

\* the parts of the state process_import never touches
idsRest == <<raw, ensured, idWarnings, phase>>

Init ==
    /\ NoCall
    /\ request \in ImportRequests
    /\ \E st \in InitialStores :
          /\ persons = st.persons
          /\ patients = st.patients
          /\ nextId = st.nextId
    /\ resources = {}
    /\ mt = [p \in Procs |-> IdleCall]
    /\ calls = 0
    /\ pc = "idle"
    /\ run = 0
    /\ warnings = <<>>
    /\ errors = <<>>
    /\ match_result = NoResult
    /\ storeLog = <<>>
    /\ txResult = <<>>
    /\ response = NoResponse
    /\ history = <<>>
    /\ converted = ""
    /\ pre = NoStore
    /\ bundle = <<>>
    /\ raw = <<>>
    /\ ensured = <<>>
    /\ idWarnings = <<>>
    /\ tx = <<>>
    /\ phase = "off"

\* POST /import arrives: process_import starts (lines 94-97)
ReceiveRequest ==
    /\ pc \in {"idle", "responded", "aborted"}
    /\ run < MaxRuns
    /\ run' = run + 1
    /\ pc' = "decode"
    /\ warnings' = <<>>
    /\ errors' = <<>>
    /\ match_result' = NoResult
    /\ storeLog' = <<>>
    /\ txResult' = <<>>
    /\ response' = NoResponse
    /\ converted' = ""
    /\ pre' = [persons |-> persons, patients |-> patients,
               resources |-> resources]
    /\ mt' = [mt EXCEPT ![1] = IdleCall]
    /\ bundle' = <<>>
    /\ tx' = <<>>
    /\ UNCHANGED <<request, resources, history, storeVars, calls, idsRest, callVars>>

\* lines 99-126: decode the payload, route on the format
DecodeData ==
    /\ pc = "decode"
    /\ IF ~request.data.decodable
       THEN Raise("ValidationError", "Failed to decode base64 data")
       ELSE IF request.format = "hl7v2"
       THEN Raise("ValidationError", "HL7v2 import not yet implemented")
       ELSE IF request.format = "fhir-r4"
       THEN Raise("ValidationError", "FHIR R4 direct import not yet implemented")
       ELSE pc' = "ccda" /\ UNCHANGED <<response, history>>
    /\ UNCHANGED <<bundle, tx, idsRest, callVars, storeVars, matcherVars, request, run,
                   warnings, errors, match_result, resources, storeLog,
                   txResult, converted, pre>>

\* _process_ccda, lines 277-290: sanitize_ccda gives up on XML it cannot
\* parse, validate_ccda raises on it and on a root that is no
\* ClinicalDocument
ValidateCcda ==
    /\ pc = "ccda"
    /\ IF request.data.xml = "malformed"
       THEN Raise("ValidationError", "Invalid XML") /\ UNCHANGED warnings
       ELSE IF request.data.xml = "other_root"
       THEN /\ Raise("ValidationError",
                     "Document is not a valid C-CDA: missing ClinicalDocument root element")
            /\ UNCHANGED warnings
       ELSE /\ pc' = "convert"
            /\ warnings' = warnings \o
                  (IF request.data.complete THEN <<>>
                   ELSE <<Warn("C-CDA validation", <<>>, 0, NoRef)>>)
            /\ UNCHANGED <<response, history>>
    /\ UNCHANGED <<bundle, tx, idsRest, callVars, storeVars, matcherVars, request, run,
                   errors, match_result, resources, storeLog, txResult,
                   converted, pre>>

\* ConvertCcda that goes on with an empty bundle when the converter fails
ConvertCcda_Swallow ==
    /\ pc = "convert"
    /\ \E ok \in BOOLEAN :
          /\ converted' = IF ok THEN "ok" ELSE "failed"
          /\ bundle' = IF ok THEN request.data.r4 ELSE <<>>
          /\ warnings' = IF ok THEN warnings
                         ELSE Append(warnings,
                                 Warn("MS Converter failed", <<>>, 0, NoRef))
    /\ pc' = "transform"
    /\ UNCHANGED <<response, history, tx, idsRest, callVars, storeVars, matcherVars,
                   request, run, errors, match_result, resources, storeLog,
                   txResult, pre>>

\* _process_ccda, lines 292-305: the converter call.  The documents are not
\* CHARM documents (no source_system label, none of its markers), so the
\* bundle goes on as the converter made it.
ConvertCcda ==
    /\ pc = "convert"
    /\ \E ok \in BOOLEAN :
          IF ok
          THEN /\ converted' = "ok"
               /\ bundle' = request.data.r4
               /\ pc' = "transform"
               /\ UNCHANGED <<response, history>>
          ELSE /\ converted' = "failed"
               /\ Raise("ConversionError", "MS Converter failed")
               /\ UNCHANGED bundle
    /\ UNCHANGED <<tx, idsRest, callVars, storeVars, matcherVars, request, run, warnings,
                   errors, match_result, resources, storeLog, txResult, pre>>

\* lines 128-134: R4 to R5 (the documents carry no dose ranges)
TransformBundle ==
    /\ pc = "transform"
    /\ bundle' = transform_bundle(bundle).bundle
    /\ warnings' = warnings \o transform_bundle(bundle).warnings
    /\ pc' = "normalise"
    /\ UNCHANGED <<tx, idsRest, callVars, storeVars, matcherVars, request, run, errors,
                   match_result, resources, storeLog, txResult, response,
                   history, converted, pre>>

\* lines 136-158: urn:uuid fullUrls and references, NKDA filter, managing
\* organization (the documents carry no Medication records to inline)
NormaliseBundle ==
    /\ pc = "normalise"
    /\ LET e == _ensure_all_fullurls_and_remap_references(bundle)
           f == _filter_nkda_allergies(e.bundle)
       IN /\ bundle' = IF request.org # ""
                       THEN _set_patient_organization(f.bundle, request.org)
                       ELSE f.bundle
          /\ warnings' = warnings \o e.warnings \o
                (IF f.count > 0
                 THEN <<Warn("Filtered 'No Known Drug Allergy' entries",
                             <<>>, f.count, NoRef)>>
                 ELSE <<>>)
    /\ pc' = "match"
    /\ UNCHANGED <<tx, idsRest, callVars, storeVars, matcherVars, request, run, errors,
                   match_result, resources, storeLog, txResult, response,
                   history, converted, pre>>

\* lines 160-165 and _match_patient, lines 568-579: without organization no
\* matching; without demographics a warning; otherwise match_or_create is
\* called
MatchPatientCall ==
    /\ pc = "match"
    /\ LET demo == _extract_patient_demographics(bundle)
       IN IF request.org = ""
          THEN pc' = "persist" /\ UNCHANGED <<warnings, mt, calls>>
          ELSE IF demo = NoDemo
          THEN /\ pc' = "persist"
               /\ warnings' = Append(warnings,
                     Warn("Could not extract patient demographics for matching",
                          <<>>, 0, NoRef))
               /\ UNCHANGED <<mt, calls>>
          ELSE /\ pc' = "matching"
               /\ mt' = [mt EXCEPT ![1] =
                             [IdleCall EXCEPT !.pc = "search", !.demo = demo,
                                              !.org = request.org,
                                              !.prePersons = persons,
                                              !.prePatients = patients]]
               /\ calls' = calls + 1
               /\ UNCHANGED warnings
    /\ UNCHANGED <<bundle, tx, idsRest, callVars, storeVars, request, run, errors,
                   match_result, resources, storeLog, txResult, response,
                   history, converted, pre>>

\* the line _match_patient adds for the result (lines 582-604)
MatchWarnings(r) ==
    CASE r.status = EXISTING_PERSON_EXISTING_PATIENT ->
            <<Warn("Matched existing Patient", <<>>, r.patient_id, NoRef)>>
      [] r.status = EXISTING_PERSON_NEW_PATIENT ->
            <<Warn("Created Patient for existing Person", <<>>,
                   r.patient_id, NoRef)>>
      [] r.status = NEW_PERSON_NEW_PATIENT ->
            <<Warn("Created new Person and Patient", <<>>, r.patient_id, NoRef)>>
      [] r.status = MULTIPLE_MATCHES ->
            <<Warn("Multiple Person matches found - skipping patient matching",
                   <<>>, 0, NoRef)>>
      [] OTHER -> <<Warn("Patient matching failed", <<>>, 0, NoRef)>>

\* _match_patient returns (lines 582-611) and, with a Patient id, lines
\* 168-184: references to the matched Patient, import tag, duplicates
MatchPatientReturn ==
    /\ pc = "matching"
    /\ mt[1].pc \in {"done", "raised"}
    /\ LET r == mt[1].result
           none == mt[1].pc = "raised"
                   \/ r.status \in {MULTIPLE_MATCHES, MATCH_FAILED}
           mw == IF mt[1].pc = "raised"
                 THEN <<Warn("Patient matching error (non-fatal)", <<>>, 0, NoRef)>>
                 ELSE IF none THEN MatchWarnings(r)
                 ELSE MatchWarnings(r) \o
                      [n \in DOMAIN r.warnings |->
                          Warn(r.warnings[n], <<>>, 0, NoRef)]
       IN IF none \/ r.patient_id = 0
          THEN /\ match_result' = NoResult
               /\ warnings' = warnings \o mw
               /\ pc' = "persist"
               /\ UNCHANGED bundle
          ELSE \E dd \in {remove_duplicate_resources(
                             tag_bundle_for_import(
                                _update_patient_references(
                                   bundle, StoreId(r.patient_id)),
                                SourceSystem, StoreId(r.patient_id)))} :
               /\ match_result' = r
               /\ bundle' = dd.bundle
               /\ warnings' = warnings \o mw \o
                     (IF dd.removed > 0
                      THEN <<Warn("Removed duplicate resources from bundle",
                                  <<>>, dd.removed, NoRef)>>
                      ELSE <<>>)
               /\ pc' = IF r.patient_created THEN "persist" ELSE "delete"
    /\ UNCHANGED <<tx, idsRest, callVars, storeVars, matcherVars, request, run, errors,
                   resources, storeLog, txResult, response, history,
                   converted, pre>>

\* lines 186-203: the Patient existed, so what earlier imports of this
\* source wrote for it is deleted; a failing search leaves everything
DeleteImportedResources ==
    /\ pc = "delete"
    /\ \E ok \in BOOLEAN :
          LET pid == StoreId(match_result.patient_id)
              found == IF ok
                       THEN ImportedResources(resources, pid, SourceSystem,
                                              get_import_resource_types)
                       ELSE {}
          IN /\ resources' = resources \ found
             /\ storeLog' = Append(storeLog,
                   [op |-> "search+delete", n |-> Cardinality(found)])
             /\ warnings' = warnings \o
                   (IF Cardinality(found) > 0
                    THEN <<Warn("Deleted existing import-created resources for re-import",
                                <<>>, Cardinality(found), NoRef)>>
                    ELSE <<>>) \o
                   (IF ok THEN <<>>
                    ELSE <<Warn("Deletion warning", <<>>, 0, NoRef)>>)
    /\ pc' = "persist"
    /\ UNCHANGED <<bundle, tx, idsRest, callVars, storeVars, matcherVars, request, run,
                   errors, match_result, txResult, response, history,
                   converted, pre>>

\* the sets of instructions the store may reject in one response bundle
RejectedSets(txb) ==
    {{}} \cup {{k} : k \in {1, Len(txb)} \cap DOMAIN txb}

\* the entries of the response bundle: a failed instruction carries an
\* OperationOutcome with one issue (diagnostics), or nothing but its status
ResponseEntries(outcomes, withOutcome) ==
    [i \in DOMAIN outcomes |->
        [kind |-> outcomes[i].kind, status |-> outcomes[i].status,
         method |-> outcomes[i].method,
         diagnostics |-> IF outcomes[i].status = "400" /\ withOutcome
                         THEN "rejected" ELSE ""]]

\* the line persist_bundle makes of one issue (line 125)
IssueLine(diagnostics) == <<"error", diagnostics>>

\* the errors persist_bundle collects from a response bundle (lines
\* 116-127): one line per issue of the OperationOutcome of an entry whose
\* status is not 2xx; an entry without OperationOutcome gives none
ResponseErrors(entries) ==
    LET failed == SelectSeq(entries,
                     LAMBDA x : x.status \notin {"200", "201"}
                                /\ x.diagnostics # "")
    IN [n \in DOMAIN failed |-> IssueLine(failed[n].diagnostics)]

\* lines 205-221 and persist_bundle: one transaction; the store answers
\* with a response bundle, in which single instructions may have failed,
\* or with an HTTP error
PersistBundle ==
    /\ pc = "persist"
    /\ \E ok \in BOOLEAN, withOutcome \in BOOLEAN :
       \E txb \in {_to_transaction_bundle(bundle, request.org)} :
       \E rejected \in RejectedSets(txb) :
       \E r \in {_execute_bundle(txb, resources, nextId, rejected)} :
       \E entries \in {ResponseEntries(r.outcomes, withOutcome)} :
       \E errs \in {ResponseErrors(entries)} :
          LET created == Cardinality({i \in DOMAIN entries :
                                         entries[i].status = "201"})
              updated == Cardinality({i \in DOMAIN entries :
                                         entries[i].status = "200"})
          IN /\ ok \/ (rejected = {} /\ withOutcome)
             /\ rejected = {} => withOutcome
             /\ tx' = txb
             /\ storeLog' = Append(storeLog,
                   [op |-> "transaction", n |-> Len(txb)])
             /\ IF ok
                THEN /\ resources' = r.resources
                     /\ nextId' = r.nextId
                     /\ txResult' = entries
                     /\ response' = [response EXCEPT !.persisted = (errs = <<>>),
                                        !.created = created, !.updated = updated]
                     /\ errors' = errors \o errs
                     /\ warnings' = Append(warnings,
                           IF errs # <<>>
                           THEN Warn("FHIR persistence completed with errors",
                                     <<>>, Len(errs), NoRef)
                           ELSE Warn("Persisted resources to FHIR store", <<>>,
                                     created, NoRef))
                ELSE /\ UNCHANGED <<resources, nextId>>
                     /\ txResult' = <<>>
                     /\ response' = [response EXCEPT !.persisted = FALSE]
                     /\ errors' = Append(errors, <<"HTTPStatusError">>)
                     /\ warnings' = Append(warnings,
                           Warn("FHIR persistence completed with errors", <<>>,
                                1, NoRef))
             /\ pc' = IF ok /\ errs = <<>> /\ match_result.patient_id # 0
                         /\ request.org # ""
                      THEN "consent" ELSE "respond"
    /\ UNCHANGED <<bundle, idsRest, callVars, persons, patients, matcherVars, request,
                   run, match_result, history, converted, pre>>

\* lines 223-235 and _create_provisional_consent: one more transaction
CreateProvisionalConsent ==
    /\ pc = "consent"
    /\ \E ok \in BOOLEAN :
          LET consent == MkEntry(NoRef, "Consent", "", "", "", "",
                            RelRef("Patient", StoreId(match_result.patient_id)),
                            <<>>)
              txb == _to_transaction_bundle(<<consent>>, request.org)
              r == _execute_bundle(txb, resources, nextId, {})
          IN /\ storeLog' = Append(storeLog,
                   [op |-> "transaction", n |-> Len(txb)])
             /\ IF ok
                THEN /\ resources' = r.resources
                     /\ nextId' = r.nextId
                     /\ warnings' = Append(warnings,
                           Warn("Created provisional Consent", <<>>,
                                match_result.patient_id, NoRef))
                ELSE /\ UNCHANGED <<resources, nextId>>
                     /\ warnings' = Append(warnings,
                           Warn("Failed to create provisional Consent", <<>>,
                                0, NoRef))
    /\ pc' = "respond"
    /\ UNCHANGED <<bundle, tx, idsRest, callVars, persons, patients, matcherVars, request,
                   run, errors, match_result, txResult, response, history,
                   converted, pre>>

\* lines 237-252: the status and the response
Respond ==
    /\ pc = "respond"
    /\ LET st == IF errors # <<>> THEN "failed"
                 ELSE IF warnings # <<>> THEN "partial" ELSE "completed"
       IN /\ response' = [response EXCEPT !.status = st]
          /\ history' = Append(history, [response EXCEPT !.status = st])
    /\ pc' = "responded"
    /\ UNCHANGED <<bundle, tx, idsRest, callVars, storeVars, matcherVars, request, run,
                   warnings, errors, match_result, resources, storeLog,
                   txResult, converted, pre>>

Next ==
    \/ ReceiveRequest
    \/ DecodeData
    \/ ValidateCcda
    \/ ConvertCcda
    \/ TransformBundle
    \/ NormaliseBundle
    \/ MatchPatientCall
    \/ MatcherSearch(1)
    \/ MatcherFindPatient(1)
    \/ MatcherCreatePerson(1)
    \/ MatcherCreatePatient(1)
    \/ MatcherRaise(1)
    \/ MatchPatientReturn
    \/ DeleteImportedResources
    \/ PersistBundle
    \/ CreateProvisionalConsent
    \/ Respond

Spec == Init /\ [][Next]_vars

----------------------------------------------------------------------------
(* Properties of process_import *)

\* every request this run has sent to the store, the resolver's included
StoreRequests == mt[1].ops \o storeLog

StoreUntouched ==
    /\ persons = pre.persons
    /\ patients = pre.patients
    /\ resources = pre.resources

\* a condition under which a step of this run raises a fatal error
Fatal ==
    \/ ~request.data.decodable
    \/ request.format # "ccda"
    \/ request.data.xml # "ok"
    \/ converted = "failed"

\* the error the run is to end with
FatalError ==
    IF ~request.data.decodable
    THEN <<"ValidationError", "Failed to decode base64 data">>
    ELSE IF request.format = "hl7v2"
    THEN <<"ValidationError", "HL7v2 import not yet implemented">>
    ELSE IF request.format = "fhir-r4"
    THEN <<"ValidationError", "FHIR R4 direct import not yet implemented">>
    ELSE IF request.data.xml = "malformed"
    THEN <<"ValidationError", "Invalid XML">>
    ELSE IF request.data.xml = "other_root"
    THEN <<"ValidationError",
           "Document is not a valid C-CDA: missing ClinicalDocument root element">>
    ELSE <<"ConversionError", "MS Converter failed">>

\* C4: abort before write.  A run whose payload does not decode, whose
\* format is not C-CDA, whose XML is malformed or has another root, or whose
\* converter call fails never gets past the failing step: it ends aborted
\* with that error, no request of any kind has been sent to the store for
\* it, and the store is as it was when the request arrived.  Nothing else
\* aborts a run.
C4_AbortBeforeWrite ==
    run > 0 =>
        /\ Fatal =>
              /\ pc \in {"decode", "ccda", "convert", "aborted"}
              /\ StoreRequests = <<>>
              /\ StoreUntouched
              /\ tx = <<>>
        /\ pc = "aborted" =>
              /\ Fatal
              /\ response.status = "error"
              /\ response.error = FatalError

\* the converter failed on the second run, after the first run had written
\* the document to the store
C4_Witness ==
    /\ pc = "aborted"
    /\ run = 2
    /\ converted = "failed"
    /\ response.error = <<"ConversionError", "MS Converter failed">>
    /\ resources # {}
    /\ StoreUntouched

\* the reference strings that name an entry of the converted document
DocNames ==
    UNION { {RelRef(request.data.r4[i].kind, request.data.r4[i].id),
             request.data.r4[i].fullUrl, UrnRef(request.data.r4[i].id)}
            : i \in DOMAIN request.data.r4 } \ {NoRef}

FullUrls(b) == {b[i].fullUrl : i \in DOMAIN b} \ {NoRef}

\* the reference is quoted by a warning of the response
ListedUnresolved(r) ==
    \E n \in DOMAIN warnings : warnings[n].ref = r /\ r # NoRef

\* the reference fields of an entry
RefsOf(e) ==
    ({e.subject} \cup {e.refs[n].ref : n \in DOMAIN e.refs}) \ {NoRef}

\* C2: reference closure.  In the bundle of the response every reference
\* that names an entry of the converted document is the fullUrl of an entry
\* of that bundle, or is listed in the warnings; none points at an entry that
\* was dropped.  (References to records of the store, the matched Patient,
\* are not held against the claim.)
C2_ReferenceClosure ==
    pc = "responded" =>
        \A i \in DOMAIN bundle : \A r \in RefsOf(bundle[i]) :
            r \in DocNames => (r \in FullUrls(bundle) \/ ListedUnresolved(r))

\* C3: idempotence of re-import.  When the same request is served again for
\* the same organization after a run that persisted its bundle, the
\* resolver finds the Patient of that run and the store rejects no
\* instruction, the transaction of the later run
\* creates no Encounter, Condition or Composition: every write of it is an
\* update or a no-op.
C3_ReimportCreatesNothing ==
    (/\ run >= 2 /\ pc = "responded" /\ response.persisted
     /\ history[run - 1].persisted
     /\ \A i \in DOMAIN txResult : txResult[i].status # "400"
     /\ match_result.status = EXISTING_PERSON_EXISTING_PATIENT) =>
        \A i \in DOMAIN txResult :
            /\ txResult[i].kind \in {"Encounter", "Condition", "Composition"}
                  => txResult[i].status # "201"
            /\ txResult[i].status = "200"

\* C5: multiple matches.  When the Person search of a run finds more than
\* one Person the resolver returns multiple-matches and the run persists no
\* Patient: the resolver creates none and the transaction the store accepts
\* adds none.
C5_NoPatientOnMultipleMatches ==
    (pc = "responded" /\ mt[1].pc = "done" /\ MatchCount(mt[1]) > 1) =>
        /\ mt[1].result.status = MULTIPLE_MATCHES
        /\ patients = pre.patients
        /\ \A x \in resources \ pre.resources : x.kind # "Patient"
        /\ \A i \in DOMAIN txResult :
              txResult[i].kind = "Patient" => txResult[i].status = "400"

----------------------------------------------------------------------------
(* Partial persistence *)

\* the instructions of the run's transaction that failed server-side
FailedWrites == {i \in DOMAIN txResult : txResult[i].status = "400"}

\* the diagnostics the store gave for the failed instructions
Diagnostics ==
    {IssueLine(txResult[i].diagnostics) :
        i \in {k \in FailedWrites : txResult[k].diagnostics # ""}}

\* C11: partial persistence.  When the store's response reports that some
\* write instructions of the run failed and nothing else in the run went
\* wrong, the response has status partial, carries the numbers of created
\* and updated records of that response, and lists the diagnostics of the
\* failed instructions.
C11_PartialPersistence ==
    (pc = "responded" /\ FailedWrites # {}) =>
        /\ response.status = "partial"
        /\ response.created =
              Cardinality({i \in DOMAIN txResult : txResult[i].status = "201"})
        /\ response.updated =
              Cardinality({i \in DOMAIN txResult : txResult[i].status = "200"})
        /\ \A d \in Diagnostics : \E n \in DOMAIN errors : errors[n] = d

----------------------------------------------------------------------------
(* Warnings *)

\* the texts of the warnings list of the response
WarningTexts == {warnings[n].msg : n \in DOMAIN warnings}

\* the warnings the transformer and the reference remap produce for the
\* bundle the converter made of the request's document
StepWarnings ==
    LET t == transform_bundle(request.data.r4)
    IN {t.warnings[n].msg : n \in DOMAIN t.warnings}
       \cup {w.msg : w \in {x \in {Warn("Remapped references to urn:uuid format",
                                         <<>>, 0, NoRef)} :
                 _ensure_all_fullurls_and_remap_references(t.bundle).warnings
                    # <<>>}}

\* the warnings of the MatchResult the resolver returned in this run
ResolverWarnings ==
    IF mt[1].pc = "done"
    THEN {mt[1].result.warnings[n] : n \in DOMAIN mt[1].result.warnings}
    ELSE {}

\* C12: warnings are never silently discarded.  When process_import returns
\* a response, every warning the transformer, the reference remap and the
\* identity resolver produced during the call is in the warnings list of
\* the response.
C12_WarningsKept ==
    pc = "responded" =>
        /\ StepWarnings \subseteq WarningTexts
        /\ ResolverWarnings \subseteq WarningTexts

----------------------------------------------------------------------------
(* Unresolvable subject *)

\* the run tried to resolve the subject and ended without a Patient id:
\* no demographics, multiple matches, or a matcher that failed
SubjectUnresolved ==
    /\ request.org # ""
    /\ pc \in {"persist", "consent", "respond", "responded"}
    /\ match_result.patient_id = 0

\* C13: an unresolvable subject is fatal.  A run that could not resolve the
\* subject of the graph sends no transaction to the store and leaves the
\* clinical records of the store as they were.
C13_UnresolvedSubjectIsFatal ==
    (SubjectUnresolved /\ pc = "responded") =>
        /\ \A n \in DOMAIN storeLog : storeLog[n].op # "transaction"
        /\ resources = pre.resources

----------------------------------------------------------------------------
(* transform_bundle on converter output: bounded inputs *)

\* the values of the variables of the normaliser, the resolver and
\* process_import while none of them runs
AllOff ==
    /\ bundle = <<>>
    /\ raw = <<>>
    /\ ensured = <<>>
    /\ idWarnings = <<>>
    /\ tx = <<>>
    /\ phase = "off"
    /\ persons = {}
    /\ patients = {}
    /\ nextId = 1
    /\ mt = <<>>
    /\ calls = 0
    /\ request = NoImportRequest
    /\ pc = "off"
    /\ run = 0
    /\ warnings = <<>>
    /\ errors = <<>>
    /\ match_result = NoResult
    /\ resources = {}
    /\ storeLog = <<>>
    /\ txResult = <<>>
    /\ response = NoResponse
    /\ history = <<>>
    /\ converted = ""
    /\ pre = NoStore

\* kind and malformed flag of the generated R4 records.  Procedure and
\* EpisodeOfCare have no transformer; "" is an entry without resourceType.
R4Profiles ==
    { <<"Encounter", FALSE>>, <<"Encounter", TRUE>>,
      <<"Condition", FALSE>>,
      <<"MedicationStatement", FALSE>>, <<"Procedure", FALSE>>,
      <<"EpisodeOfCare", FALSE>>, <<"", FALSE>> }

\* the reference fields the generated records carry
R4Fields == {"encounter", "context", "context.encounter", "partOf"}

\* a reference to something the bundle lacks
MissingRef(form, byUrl) ==
    IF byUrl /\ form = "urn" THEN UrnRef("u9")
    ELSE IF byUrl /\ form = "abs" THEN AbsRef("Encounter", "x9")
    ELSE RelRef("Encounter", "x9")

\* an R4 bundle of the converter: entry i has local id Ids[i]; the last
\* entry carries one reference, in field, to entry tgt (tgt = 0: to
\* something the bundle lacks), written as ResourceType/id or as tgt's
\* fullUrl, and a note field of the given shape
R4Bundle(prof, form, tgt, byUrl, field, note) ==
    [i \in 1..MaxEntries |->
        [MkEntry(RawFullUrl(form, prof[i][1], i), prof[i][1], Ids[i],
                 "", "", "", RelRef("Patient", "p0"),
                 IF i = MaxEntries
                 THEN <<Slot(field, FALSE,
                             IF tgt = 0 THEN MissingRef(form, byUrl)
                             ELSE IF byUrl /\ form # "missing"
                             THEN RawFullUrl(form, prof[tgt][1], tgt)
                             ELSE RelRef(prof[tgt][1], Ids[tgt]))>>
                 ELSE <<>>)
         EXCEPT !.malformed = prof[i][2],
                !.note = IF i = MaxEntries THEN note ELSE "absent"]]

TransformInit ==
    /\ AllOff
    /\ NoCharm
    /\ NoDose
    /\ NoPersist
    /\ \E prof \in [1..MaxEntries -> R4Profiles], form \in UrlForms,
          tgt \in 0..(MaxEntries - 1), byUrl \in BOOLEAN, field \in R4Fields,
          note \in {"absent", "object"} :
          r4_bundle = R4Bundle(prof, form, tgt, byUrl, field, note)
    /\ r5_bundle = <<>>
    /\ transform_warnings = <<>>
    /\ fpc = "input"

\* r5_bundle, counts, transform_warnings = transform_bundle(r4_bundle)
TransformCall ==
    /\ fpc = "input"
    /\ \E r \in {transform_bundle(r4_bundle)} :
          /\ r5_bundle' = r.bundle
          /\ transform_warnings' = r.warnings
    /\ fpc' = "done"
    /\ UNCHANGED <<r4_bundle, charmVars, doseVars, persistVars, idsVars,
                   storeVars, matcherVars,
                   pipeVars>>

TransformNext == TransformCall

SpecTransform == TransformInit /\ [][TransformNext]_vars

----------------------------------------------------------------------------
(* Properties of transform_bundle *)

\* the transformer of the entry raises
Raises(e) == e.kind \in RESOURCE_TRANSFORMERS /\ e.malformed

FailedPositions(b) == {i \in DOMAIN b : Raises(b[i])}

FailureWarnings(k) ==
    {n \in DOMAIN transform_warnings :
        /\ transform_warnings[n].msg = "Failed to transform"
        /\ transform_warnings[n].what = <<k>>}

\* C14: a failing transformer.  When the transformer of an entry raises,
\* the entry is not in the output, there is one warning naming its kind for
\* each such entry, and the output is the output for the input without
\* that entry.
C14_FailedEntryDropped ==
    fpc = "done" =>
        \A i \in FailedPositions(r4_bundle) :
            /\ \A k \in DOMAIN r5_bundle : r5_bundle[k].id # r4_bundle[i].id
            /\ Cardinality(FailureWarnings(r4_bundle[i].kind)) =
                  Cardinality({j \in FailedPositions(r4_bundle) :
                                  r4_bundle[j].kind = r4_bundle[i].kind})
            /\ r5_bundle =
                  transform_bundle(WithoutPositions(r4_bundle, {i}, 1)).bundle

\* the transformer of the first Encounter raised; the second Encounter and
\* a MedicationStatement whose context names it came out transformed
C14_Witness ==
    /\ fpc = "done"
    /\ FailedPositions(r4_bundle) = {1}
    /\ r4_bundle[1].kind = "Encounter"
    /\ r4_bundle[3].refs[1].field = "context"
    /\ Len(r5_bundle) = 2
    /\ r5_bundle[1].kind = "Encounter"
    /\ r5_bundle[2].kind = "MedicationStatement"
    /\ Len(r5_bundle[2].refs) = 1
    /\ r5_bundle[2].refs[1].field = "encounter"
    /\ r5_bundle[2].refs[1].ref = r5_bundle[1].fullUrl
    /\ Cardinality(FailureWarnings("Encounter")) = 1

\* the entries of the input whose kind has no transformer
PassThrough(b) ==
    {i \in DOMAIN b : b[i].kind # "" /\ b[i].kind \notin RESOURCE_TRANSFORMERS}

\* C15 as stated: an entry whose kind has no transformer is in the output
\* with identical content.
C15_PassThroughUnchanged ==
    fpc = "done" =>
        \A i \in PassThrough(r4_bundle) :
            \E k \in DOMAIN r5_bundle : r5_bundle[k] = r4_bundle[i]

\* the fullUrls of the Encounters of the output
EncounterUrls == {r5_bundle[k].fullUrl :
                    k \in {j \in DOMAIN r5_bundle :
                              r5_bundle[j].kind = "Encounter"}} \ {NoRef}

\* C15 amended: an entry whose kind has no transformer is in the output
\* with the same fullUrl, request and fields, but a single value in an
\* array field has become a list, and its encounter back-references are
\* as the orphan cleanup leaves them: unchanged, rewritten to the fullUrl of
\* an Encounter of the output, or removed.  Every other reference field is
\* unchanged.
C15_PassThroughNormalised ==
    fpc = "done" =>
        \A i \in PassThrough(r4_bundle) :
            \E k \in DOMAIN r5_bundle :
               LET in == r4_bundle[i]
                   out == r5_bundle[k]
               IN /\ [out EXCEPT !.refs = <<>>, !.note = ""]
                        = [in EXCEPT !.refs = <<>>, !.note = ""]
                  /\ out.note = (IF in.note = "object" THEN "list" ELSE in.note)
                  /\ \A n \in DOMAIN in.refs :
                        in.refs[n].field \notin EncounterFields =>
                           \E m \in DOMAIN out.refs : out.refs[m] = in.refs[n]
                  /\ \A m \in DOMAIN out.refs :
                        \E n \in DOMAIN in.refs :
                           \/ out.refs[m] = in.refs[n]
                           \/ /\ in.refs[n].field \in EncounterFields
                              /\ out.refs[m] =
                                    [in.refs[n] EXCEPT !.ref = out.refs[m].ref]
                              /\ out.refs[m].ref \in EncounterUrls

\* a Procedure with a single note and a reference Encounter/<id> went
\* through: the note is a list, the reference is the Encounter's fullUrl
C15_Witness ==
    /\ fpc = "done"
    /\ r4_bundle[3].kind = "Procedure"
    /\ r4_bundle[3].note = "object"
    /\ r4_bundle[3].refs[1].field = "encounter"
    /\ r4_bundle[3].refs[1].ref = RelRef("Encounter", "a")
    /\ Len(r5_bundle) = 3
    /\ r5_bundle[3].note = "list"
    /\ r5_bundle[3].refs[1].ref = UrnRef("u1")
    /\ r5_bundle[2].kind = "EpisodeOfCare"
    /\ r5_bundle[2] = r4_bundle[2]

\* the canonical identifiers of the Encounters of the output
EncounterNames ==
    EncounterUrls
    \cup {RelRef("Encounter", r5_bundle[k].id) :
             k \in {j \in DOMAIN r5_bundle :
                       /\ r5_bundle[j].kind = "Encounter"
                       /\ r5_bundle[j].fullUrl = NoRef}}

\* the reference names an Encounter: by its form, or as the fullUrl of an
\* Encounter entry of the input
NamesEncounter(r) ==
    \/ r.form \in {"rel", "abs"} /\ r.kind = "Encounter"
    \/ \E j \in DOMAIN r4_bundle :
          r4_bundle[j].kind = "Encounter" /\ r4_bundle[j].fullUrl = r

\* the reference names an entry of the input that is no Encounter
NamesOther(r) ==
    \E j \in DOMAIN r4_bundle :
       /\ r4_bundle[j].kind \notin {"", "Encounter"}
       /\ r \in {r4_bundle[j].fullUrl, RelRef(r4_bundle[j].kind, r4_bundle[j].id)}
       /\ r # NoRef

\* the transformer of the entry carries the reference field over: the
\* MedicationStatement transformer copies encounter, context and partOf
\* and no other reference field of the model
Carried(e, slot) ==
    e.kind = "MedicationStatement" =>
        slot.field \in {"encounter", "context", "partOf"}

\* C16: orphaned encounter back-references.  After transform_bundle every
\* encounter back-reference of a record that is no Encounter names an
\* Encounter of the output; a back-reference that was removed is covered by
\* a warning; and a reference in these fields that names a record that is
\* no Encounter is still there, unchanged.
C16_EncounterBackRefs ==
    fpc = "done" =>
        /\ \A k \in DOMAIN r5_bundle : \A m \in DOMAIN r5_bundle[k].refs :
              (/\ r5_bundle[k].kind # "Encounter"
               /\ r5_bundle[k].refs[m].field \in EncounterFields
               /\ NamesEncounter(r5_bundle[k].refs[m].ref))
                  => r5_bundle[k].refs[m].ref \in EncounterNames
        /\ \A i \in DOMAIN r4_bundle : \A k \in DOMAIN r5_bundle :
              (/\ r4_bundle[i].id = r5_bundle[k].id
               /\ r4_bundle[i].kind # "Encounter"
               /\ \A n \in DOMAIN r4_bundle[i].refs :
                     Carried(r4_bundle[i], r4_bundle[i].refs[n])
               /\ Len(r5_bundle[k].refs) < Len(r4_bundle[i].refs))
                  => \E n \in DOMAIN transform_warnings :
                        transform_warnings[n].msg =
                           "Removed orphaned encounter references"
        /\ \A i \in DOMAIN r4_bundle : \A k \in DOMAIN r5_bundle :
              \A n \in DOMAIN r4_bundle[i].refs :
              (/\ r4_bundle[i].id = r5_bundle[k].id
               /\ r4_bundle[i].kind # "Encounter"
               /\ Carried(r4_bundle[i], r4_bundle[i].refs[n])
               /\ NamesOther(r4_bundle[i].refs[n].ref))
                  => \E m \in DOMAIN r5_bundle[k].refs :
                        r5_bundle[k].refs[m].ref = r4_bundle[i].refs[n].ref

----------------------------------------------------------------------------
(* import_/charm/extractor.py: encounter synthesis *)

\* a datetime.date is a day number 1 .. MaxDate; NoDate is None
NoDate == 0

MaxDate == 3

MaxNotes == 3

MaxFacts == 1

Dates == 1 .. MaxDate

ClinicalNote(d, id) == [date |-> d, note_id |-> id]

ProblemEntry(s, e, id) == [start_date |-> s, end_date |-> e, ccda_id |-> id]

MedicationEntry(s, e, id) == [start_date |-> s, end_date |-> e, ccda_id |-> id]

EncounterData(d, ns, ps, ms) ==
    [date |-> d, notes |-> ns, problem_ids |-> ps, medication_ids |-> ms]

\* sorted(): ascending
RECURSIVE sorted(_)
sorted(S) ==
    IF S = {} THEN <<>>
    ELSE LET m == CHOOSE x \in S : \A y \in S : x <= y
         IN <<m>> \o sorted(S \ {m})

\* the date of every note, in the order of the notes
encounter_dates_PerNote(ns) == [i \in DOMAIN ns |-> ns[i].date]

\* encounter_dates = sorted(set(note.date for note in notes))
encounter_dates(ns) == sorted({ns[i].date : i \in DOMAIN ns})

\* a test that leaves out the end date itself
problem_active_Exclusive(p, d) ==
    /\ p.start_date <= d
    /\ (p.end_date = NoDate \/ p.end_date > d)

\* the problem was active on the date
problem_active(p, d) ==
    /\ p.start_date <= d
    /\ (p.end_date = NoDate \/ p.end_date >= d)

\* the medication was active on the date; one without start date never is
medication_active(m, d) ==
    /\ m.start_date # NoDate
    /\ m.start_date <= d
    /\ (m.end_date = NoDate \/ m.end_date >= d)

ccda_ids(fs) == [i \in DOMAIN fs |-> fs[i].ccda_id]

_synthesize_encounters(ns, ps, ms) ==
    LET enc(d) ==
          EncounterData(d,
              SelectSeq(ns, LAMBDA n : n.date = d),
              ccda_ids(SelectSeq(ps, LAMBDA p : problem_active(p, d))),
              ccda_ids(SelectSeq(ms, LAMBDA m : medication_active(m, d))))
        dates(ds) == [k \in DOMAIN ds |-> enc(ds[k])]
    IN dates(encounter_dates(ns))

----------------------------------------------------------------------------
(* _synthesize_encounters on extracted lists: bounded inputs *)

NoteIds == <<"n1", "n2", "n3", "n4", "n5">>

ProblemIds == <<"p1", "p2", "p3">>

MedicationIds == <<"m1", "m2", "m3">>

\* the notes of the Notes table: the i-th row has ID NoteIds[i]
NoteLists ==
    {[i \in DOMAIN f |-> ClinicalNote(f[i], NoteIds[i])] :
        f \in UNION {[1 .. n -> Dates] : n \in 0 .. MaxNotes}}

\* the entries of the problem list: a start date, an end date or none
ProblemLists ==
    {[i \in DOMAIN f |-> ProblemEntry(f[i][1], f[i][2], ProblemIds[i])] :
        f \in UNION {[1 .. n -> Dates \X ({NoDate} \cup Dates)] :
                        n \in 0 .. MaxFacts}}

\* the entries of the medication list: start and end date may both be missing
MedicationLists ==
    {[i \in DOMAIN f |-> MedicationEntry(f[i][1], f[i][2], MedicationIds[i])] :
        f \in UNION {[1 .. n -> ({NoDate} \cup Dates) \X ({NoDate} \cup Dates)] :
                        n \in 0 .. MaxFacts}}

ExtractInit ==
    /\ AllOff
    /\ NoTransform
    /\ NoDose
    /\ NoPersist
    /\ notes \in NoteLists
    /\ problems \in ProblemLists
    /\ medications \in MedicationLists
    /\ encounters = <<>>
    /\ fhir_bundle = <<>>
    /\ charm_warnings = <<>>
    /\ cpc = "input"

\* CharmCcdaExtractor.extract, from the extracted lists on
SynthesizeEncounters ==
    /\ cpc = "input"
    /\ encounters' = _synthesize_encounters(notes, problems, medications)
    /\ cpc' = "extracted"
    /\ UNCHANGED <<notes, problems, medications, fhir_bundle, charm_warnings,
                   r4_bundle, r5_bundle, transform_warnings, fpc, doseVars,
                   persistVars,
                   idsVars, storeVars, matcherVars, pipeVars>>

ExtractNext == SynthesizeEncounters

SpecExtract == ExtractInit /\ [][ExtractNext]_vars

----------------------------------------------------------------------------
(* Properties of the encounter synthesis *)

NoteDates == {notes[i].date : i \in DOMAIN notes}

NotesOn(d) == {notes[i] : i \in {j \in DOMAIN notes : notes[j].date = d}}

\* C17: encounter synthesis.  There is one encounter for each date that
\* some note has, the encounters are in strictly ascending order of date,
\* and each encounter holds the notes of its date, each once, and no other.
C17_OneEncounterPerDate ==
    cpc = "extracted" =>
        /\ Len(encounters) = Cardinality(NoteDates)
        /\ \A d \in NoteDates :
              \E k \in DOMAIN encounters : encounters[k].date = d
        /\ \A j, k \in DOMAIN encounters :
              j < k => encounters[j].date < encounters[k].date
        /\ \A k \in DOMAIN encounters :
              /\ {encounters[k].notes[x] : x \in DOMAIN encounters[k].notes}
                    = NotesOn(encounters[k].date)
              /\ Len(encounters[k].notes)
                    = Cardinality(NotesOn(encounters[k].date))

\* three notes, the first and the last on the later date: two encounters,
\* the earlier date first, the second holding two notes
C17_Witness ==
    /\ cpc = "extracted"
    /\ Len(notes) = 3
    /\ notes[1].date = 3
    /\ notes[2].date = 1
    /\ notes[3].date = 3
    /\ Len(encounters) = 2
    /\ encounters[1].date = 1
    /\ encounters[2].notes = <<notes[1], notes[3]>>

\* the date range of the fact contains the date, both ends included; a
\* range without end contains every date from its start on
InRange(f, d) ==
    /\ f.start_date # NoDate
    /\ f.start_date <= d
    /\ (f.end_date = NoDate \/ d <= f.end_date)

Attached(ids, f) == \E x \in DOMAIN ids : ids[x] = f.ccda_id

\* C18: fact attachment.  A problem or medication is attached to an
\* encounter exactly when its date range contains the encounter's date.
C18_FactAttachment ==
    cpc = "extracted" =>
        \A k \in DOMAIN encounters :
            /\ \A i \in DOMAIN problems :
                  Attached(encounters[k].problem_ids, problems[i])
                     <=> InRange(problems[i], encounters[k].date)
            /\ \A i \in DOMAIN medications :
                  Attached(encounters[k].medication_ids, medications[i])
                     <=> InRange(medications[i], encounters[k].date)

\* three encounters; an open-ended problem that starts on the second date is
\* attached to the second and third, a medication that ends on the second
\* date to the first and second
C18_Witness ==
    /\ cpc = "extracted"
    /\ Len(encounters) = 3
    /\ problems = <<ProblemEntry(2, NoDate, "p1")>>
    /\ encounters[1].problem_ids = <<>>
    /\ encounters[2].problem_ids = <<"p1">>
    /\ encounters[3].problem_ids = <<"p1">>
    /\ medications = <<MedicationEntry(1, 2, "m1")>>
    /\ encounters[1].medication_ids = <<"m1">>
    /\ encounters[2].medication_ids = <<"m1">>
    /\ encounters[3].medication_ids = <<>>

----------------------------------------------------------------------------
(* import_/charm/linker.py, composition_builder.py and the CHARM step of
   gateway.py *)

\* date.isoformat()
IsoDays == <<"2023-03-14", "2023-03-21", "2023-03-28", "2023-04-04",
             "2023-04-11">>

isoformat(d) == IsoDays[d]

\* f"{date_str}T00:00:00Z"
StartOfDays == <<"2023-03-14T00:00:00Z", "2023-03-21T00:00:00Z",
                 "2023-03-28T00:00:00Z", "2023-04-04T00:00:00Z",
                 "2023-04-11T00:00:00Z">>

\* dateTime strings of the converter's records
TimedDays == <<"2023-03-14T09:30:00", "2023-03-21T09:30:00",
               "2023-03-28T09:30:00", "2023-04-04T09:30:00",
               "2023-04-11T09:30:00">>

\* date.fromisoformat of the part before "T", or of the first ten
\* characters: NoDate when it raises ValueError ("2023-03", "not-a-date")
fromisoformat(v) ==
    IF \E d \in DOMAIN IsoDays : v \in {IsoDays[d], StartOfDays[d], TimedDays[d]}
    THEN CHOOSE d \in DOMAIN IsoDays :
            v \in {IsoDays[d], StartOfDays[d], TimedDays[d]}
    ELSE NoDate

\* uuid4() of _create_encounter and of _create_composition
EncounterIds == <<"e1", "e2", "e3", "e4", "e5">>

CompositionIds == <<"k1", "k2", "k3", "k4", "k5">>

\* linker._find_patient_reference: Patient/<id>, else the fullUrl
RECURSIVE linker_find_patient_reference(_, _)
linker_find_patient_reference(b, i) ==
    IF i > Len(b) THEN NoRef
    ELSE IF b[i].kind = "Patient" /\ b[i].id # ""
    THEN RelRef("Patient", b[i].id)
    ELSE IF b[i].kind = "Patient" /\ b[i].fullUrl # NoRef THEN b[i].fullUrl
    ELSE linker_find_patient_reference(b, i + 1)

\* composition_builder._find_patient_reference: a urn:uuid fullUrl, else
\* Patient/<id>, else the fullUrl
RECURSIVE composition_find_patient_reference(_, _)
composition_find_patient_reference(b, i) ==
    IF i > Len(b) THEN NoRef
    ELSE IF b[i].kind = "Patient" /\ IsUrn(b[i].fullUrl) THEN b[i].fullUrl
    ELSE IF b[i].kind = "Patient" /\ b[i].id # ""
    THEN RelRef("Patient", b[i].id)
    ELSE IF b[i].kind = "Patient" /\ b[i].fullUrl # NoRef THEN b[i].fullUrl
    ELSE composition_find_patient_reference(b, i + 1)

\* _create_encounter: the k-th Encounter, without fullUrl
_create_encounter(enc_data, patient_ref, k) ==
    MkEntry(NoRef, "Encounter", EncounterIds[k], "",
            StartOfDays[enc_data.date], "", patient_ref, <<>>)

\* resource[field] = {"reference": ref}
SetReference(e, field, ref) ==
    [e EXCEPT !.refs = SelectSeq(@, LAMBDA sl : sl.field # field)
                          \o <<Slot(field, FALSE, ref)>>]

\* the loop over sorted(encounter_date_to_ref.items()): stop at the date
\* itself, keep the last earlier one
RECURSIVE match_scan(_, _, _, _, _)
match_scan(m, ds, i, d, cur) ==
    IF i > Len(ds) THEN cur
    ELSE IF ds[i] = d THEN m[ds[i]]
    ELSE IF ds[i] < d THEN match_scan(m, ds, i + 1, d, m[ds[i]])
    ELSE match_scan(m, ds, i + 1, d, cur)

matching_enc_ref(m, d) == match_scan(m, sorted(DOMAIN m), 1, d, NoRef)

\* a linking that takes the first encounter whatever its date
_link_condition_to_encounter_First(condition, m) ==
    IF m = EmptyMap THEN [resource |-> condition, linked |-> FALSE]
    ELSE [resource |-> SetReference(condition, "encounter",
                                     m[sorted(DOMAIN m)[1]]),
          linked |-> TRUE]

\* _link_condition_to_encounter: onsetDateTime, else recordedDate
_link_condition_to_encounter(condition, m) ==
    LET onset == IF condition.date # "" THEN condition.date
                 ELSE condition.date2
        link(r) == IF r = NoRef
                   THEN [resource |-> condition, linked |-> FALSE]
                   ELSE [resource |-> SetReference(condition, "encounter", r),
                         linked |-> TRUE]
    IN IF onset = "" \/ fromisoformat(onset) = NoDate
       THEN [resource |-> condition, linked |-> FALSE]
       ELSE link(matching_enc_ref(m, fromisoformat(onset)))

\* _link_medication_to_encounter: effectiveDateTime, else
\* effectivePeriod.start; the R4 field is context
_link_medication_to_encounter(medication, m) ==
    LET effective == IF medication.date2 # "" THEN medication.date2
                     ELSE medication.date
        link(r) == IF r = NoRef
                   THEN [resource |-> medication, linked |-> FALSE]
                   ELSE [resource |-> SetReference(medication, "context", r),
                         linked |-> TRUE]
    IN IF effective = "" \/ fromisoformat(effective) = NoDate
       THEN [resource |-> medication, linked |-> FALSE]
       ELSE link(matching_enc_ref(m, fromisoformat(effective)))

\* encounter_date_to_ref of link_resources_to_encounters
encounter_refs(encs) ==
    [d \in {encs[k].date : k \in DOMAIN encs} |->
        RelRef("Encounter",
               EncounterIds[CHOOSE k \in DOMAIN encs : encs[k].date = d])]

link_entry(e, m) ==
    IF e.kind = "Condition" THEN _link_condition_to_encounter(e, m)
    ELSE IF e.kind = "MedicationStatement"
    THEN _link_medication_to_encounter(e, m)
    ELSE [resource |-> e, linked |-> FALSE]

\* the warning f"Linked {n} ..." of a kind, none for n = 0
LinkedWarning(msg, ls, b, k) ==
    LET n == Cardinality({i \in DOMAIN b : b[i].kind = k /\ ls[i].linked})
    IN IF n = 0 THEN <<>> ELSE <<Warn(msg, <<>>, n, NoRef)>>

link_resources_to_encounters(b, encs) ==
    LET patient_ref == linker_find_patient_reference(b, 1)
        result(m) ==
          LET ls == [i \in DOMAIN b |-> link_entry(b[i], m)]
          IN [bundle |->
                [k \in DOMAIN encs |->
                    _create_encounter(encs[k], patient_ref, k)]
                \o [i \in DOMAIN b |-> ls[i].resource],
              warnings |->
                LinkedWarning("Linked Conditions to Encounters", ls, b,
                              "Condition")
                \o LinkedWarning("Linked MedicationStatements to Encounters",
                                 ls, b, "MedicationStatement")
                \o <<Warn("Created Encounter resources", <<>>, Len(encs),
                          NoRef)>>]
    IN IF patient_ref = NoRef
       THEN [bundle |-> b,
             warnings |-> <<Warn("Could not find Patient reference in bundle",
                                 <<>>, 0, NoRef)>>]
       ELSE result(encounter_refs(encs))

\* The link functions raise AttributeError on a record whose period is no
\* object: condition.get("onsetPeriod", {}).get("start") is evaluated when
\* onsetDateTime is missing (linker.py 270-272), and
\* medication.get("effectivePeriod", {}).get("start") when effectiveDateTime
\* is missing (linker.py 319-321).  malformed marks such a record.
link_raises(e) ==
    \/ e.kind = "Condition" /\ e.malformed /\ e.date = ""
    \/ e.kind = "MedicationStatement" /\ e.malformed /\ e.date2 = ""

\* the positions of the two loops of link_resources_to_encounters, in the
\* order they are visited: the Conditions, then the MedicationStatements
link_order(b) ==
    SelectSeq([i \in 1..Len(b) |-> i], LAMBDA i : b[i].kind = "Condition")
    \o SelectSeq([i \in 1..Len(b) |-> i],
                 LAMBDA i : b[i].kind = "MedicationStatement")

\* the step of link_order at which a link function raises; 0 when the
\* linker returns (also when it returns early for want of a Patient)
link_failure(b) ==
    LET order == link_order(b)
        raising == {k \in DOMAIN order : link_raises(b[order[k]])}
    IN IF linker_find_patient_reference(b, 1) = NoRef \/ raising = {}
       THEN 0
       ELSE CHOOSE k \in raising : \A l \in raising : k <= l

\* the bundle as the exception leaves it: the records are linked in place
\* (linker.py 300, 349) up to the one that raised, and the Encounter
\* entries, which are added last (linker.py 95-96), are not in it
link_interrupted(b, encs) ==
    LET order == link_order(b)
        done == {order[k] : k \in 1..(link_failure(b) - 1)}
        m == encounter_refs(encs)
    IN [i \in DOMAIN b |->
           IF i \in done THEN link_entry(b[i], m).resource ELSE b[i]]

\* gateway._build_encounter_date_map: the fullUrl, else Encounter/<id>, of
\* the last Encounter whose actualPeriod.start is the date
EncounterRef(e) ==
    IF e.fullUrl # NoRef THEN e.fullUrl
    ELSE IF e.id # "" THEN RelRef("Encounter", e.id)
    ELSE NoRef

_build_encounter_date_map(b) ==
    LET dated == {i \in DOMAIN b :
                    /\ b[i].kind = "Encounter"
                    /\ EncounterRef(b[i]) # NoRef
                    /\ b[i].date # ""
                    /\ fromisoformat(b[i].date) # NoDate}
        last(d) == CHOOSE i \in dated :
                      /\ fromisoformat(b[i].date) = d
                      /\ \A j \in dated :
                            fromisoformat(b[j].date) = d => j <= i
    IN [d \in {fromisoformat(b[i].date) : i \in dated} |->
           EncounterRef(b[last(d)])]

\* _create_composition: the k-th Composition
_create_composition(note_date, patient_ref, encounter_ref, k) ==
    MkEntry(UrnRef(CompositionIds[k]), "Composition", CompositionIds[k], "",
            StartOfDays[note_date], "", patient_ref,
            <<Slot("encounter", FALSE, encounter_ref)>>)

\* the loop of build_compositions over the note dates, in ascending order;
\* k counts the Compositions created so far
RECURSIVE compose(_, _, _, _, _)
compose(ds, i, m, patient_ref, k) ==
    IF i > Len(ds) THEN [out |-> <<>>, warnings |-> <<>>]
    ELSE IF ds[i] \notin DOMAIN m
    THEN LET rest == compose(ds, i + 1, m, patient_ref, k)
         IN [out |-> rest.out,
             warnings |-> <<Warn("No encounter found for notes dated",
                                 <<isoformat(ds[i])>>, 0, NoRef)>>
                          \o rest.warnings]
    ELSE LET rest == compose(ds, i + 1, m, patient_ref, k + 1)
         IN [out |-> <<_create_composition(ds[i], patient_ref, m[ds[i]],
                                           k + 1)>> \o rest.out,
             warnings |-> rest.warnings]

build_compositions(b, ns, m) ==
    LET patient_ref == composition_find_patient_reference(b, 1)
        result(r) ==
          [bundle |-> b \o r.out,
           warnings |-> r.warnings
                        \o <<Warn("Created Composition resources", <<>>,
                                  Len(r.out), NoRef)>>]
    IN IF patient_ref = NoRef
       THEN [bundle |-> b,
             warnings |->
                <<Warn("Cannot create Compositions: no Patient reference found",
                       <<>>, 0, NoRef)>>]
       ELSE result(compose(encounter_dates(ns), 1, m, patient_ref, 0))

\* gateway._ensure_patient_fullurl: a Patient whose fullUrl is no urn:uuid
\* gets urn:uuid:<id>, and a fresh id when it has none
_ensure_patient_fullurl(b) ==
    [i \in DOMAIN b |->
        IF b[i].kind = "Patient" /\ ~IsUrn(b[i].fullUrl)
        THEN LET patient_id == IF b[i].id # "" THEN b[i].id ELSE uuid4(i)
             IN [b[i] EXCEPT !.id = patient_id, !.fullUrl = UrnRef(patient_id)]
        ELSE b[i]]

\* the parameters of link_resources_to_encounters (fhir_bundle,
\* extraction_result)
LinkerParameters == 2

\* a call with the arguments the linker declares
LinkCallArguments_AsDeclared == LinkerParameters

\* the arguments _apply_charm_processing calls it with (r4_bundle,
\* extraction_result, organization_id, practitioner_role_id)
LinkCallArguments == 4

----------------------------------------------------------------------------
(* The CHARM step on converter output: bounded inputs *)

\* the Patient entry of the converter: with urn:uuid fullUrl, without
\* fullUrl, with an absolute fullUrl, without id; or none
CharmPatients ==
    { <<>>,
      <<MkEntry(UrnRef("u0"), "Patient", "p0", "", "", "", NoRef, <<>>)>>,
      <<MkEntry(NoRef, "Patient", "p0", "", "", "", NoRef, <<>>)>>,
      <<MkEntry(AbsRef("Patient", "p0"), "Patient", "p0", "", "", "", NoRef,
                <<>>)>>,
      <<MkEntry(UrnRef("u0"), "Patient", "", "", "", "", NoRef, <<>>)>> }

\* onsetDateTime and recordedDate of the Condition
ConditionDates ==
    {<<IsoDays[d], "">> : d \in Dates} \cup {<<"", TimedDays[d]>> : d \in Dates}
    \cup { <<"", "">>, <<"2023-03", IsoDays[1]>>, <<"not-a-date", "">> }

\* effectivePeriod.start and effectiveDateTime of the MedicationStatement
MedicationDates ==
    {<<IsoDays[d], "">> : d \in Dates} \cup {<<"", TimedDays[d]>> : d \in Dates}
    \cup { <<"", "">> }

\* the last one has a string for onsetPeriod and no onsetDateTime
CharmConditions ==
    {<<>>} \cup
    {<<MkEntry(UrnRef("u1"), "Condition", "c1", "F32", dd[1], dd[2],
               RelRef("Patient", "p0"), <<>>)>> : dd \in ConditionDates}
    \cup
    {<<[MkEntry(UrnRef("u1"), "Condition", "c1", "F32", "", "",
                RelRef("Patient", "p0"), <<>>) EXCEPT !.malformed = TRUE]>>}

\* the last one has a string for effectivePeriod and no effectiveDateTime
CharmMedications ==
    {<<>>} \cup
    {<<MkEntry(UrnRef("u2"), "MedicationStatement", "m1", "rx1", dd[1], dd[2],
               RelRef("Patient", "p0"), <<>>)>> : dd \in MedicationDates}
    \cup
    {<<[MkEntry(UrnRef("u2"), "MedicationStatement", "m1", "rx1", "", "",
                RelRef("Patient", "p0"), <<>>) EXCEPT !.malformed = TRUE]>>}

CharmBundles ==
    {p \o c \o m : p \in CharmPatients, c \in CharmConditions,
                   m \in CharmMedications}

\* the problem list of the document a Condition of the bundle came from
ProblemsOf(b) ==
    LET cs == SelectSeq(b, LAMBDA e : /\ e.kind = "Condition"
                                      /\ fromisoformat(e.date) # NoDate)
    IN [i \in DOMAIN cs |->
           ProblemEntry(fromisoformat(cs[i].date), NoDate, ProblemIds[i])]

\* the medication list of the document
MedicationsOf(b) ==
    LET ms == SelectSeq(b, LAMBDA e : e.kind = "MedicationStatement")
    IN [i \in DOMAIN ms |->
           MedicationEntry(fromisoformat(ms[i].date), NoDate, MedicationIds[i])]

CharmInit ==
    /\ AllOff
    /\ NoTransform
    /\ NoDose
    /\ NoPersist
    /\ notes \in NoteLists
    /\ fhir_bundle \in CharmBundles
    /\ problems = ProblemsOf(fhir_bundle)
    /\ medications = MedicationsOf(fhir_bundle)
    /\ encounters = <<>>
    /\ charm_warnings = <<>>
    /\ cpc = "input"

charmRest == <<r4_bundle, r5_bundle, transform_warnings, fpc, doseVars,
              persistVars,
               idsVars, storeVars, matcherVars, pipeVars>>

\* link_resources_to_encounters, called as the linker's tests call it; an
\* exception of a link function leaves the call with the bundle as it is
LinkResourcesToEncounters ==
    /\ cpc = "extracted"
    /\ IF link_failure(fhir_bundle) = 0
       THEN \E r \in {link_resources_to_encounters(fhir_bundle, encounters)} :
               /\ fhir_bundle' = r.bundle
               /\ charm_warnings' = charm_warnings \o r.warnings
               /\ cpc' = "linked"
       ELSE /\ fhir_bundle' = link_interrupted(fhir_bundle, encounters)
            /\ charm_warnings' = charm_warnings
            /\ cpc' = "raised"
    /\ UNCHANGED <<notes, problems, medications, encounters, charmRest>>

\* build_compositions over the linked bundle
BuildCompositions ==
    /\ cpc = "linked"
    /\ \E r \in {build_compositions(fhir_bundle, notes,
                                   _build_encounter_date_map(fhir_bundle))} :
          /\ fhir_bundle' = r.bundle
          /\ charm_warnings' = charm_warnings \o r.warnings
    /\ cpc' = "composed"
    /\ UNCHANGED <<notes, problems, medications, encounters, charmRest>>

\* gateway._apply_charm_processing: the call of the linker raises TypeError
\* when the number of arguments is not the number of its parameters, a
\* link function may raise inside it, and the except branch (lines 375-378)
\* returns the bundle as it is then
ApplyCharmProcessing ==
    /\ cpc = "input"
    /\ \E b1 \in {_ensure_patient_fullurl(fhir_bundle)} :
       \E encs \in {_synthesize_encounters(notes, problems, medications)} :
       \E extracted \in {<<Warn("CHARM extraction", <<>>, Len(encs), NoRef)>>} :
          /\ encounters' = encs
          /\ IF LinkCallArguments = LinkerParameters /\ link_failure(b1) = 0
             THEN \E l \in {link_resources_to_encounters(b1, encs)} :
                  \E c \in {build_compositions(l.bundle, notes,
                               _build_encounter_date_map(l.bundle))} :
                     /\ fhir_bundle' = c.bundle
                     /\ charm_warnings' = extracted \o l.warnings \o c.warnings
             ELSE IF LinkCallArguments = LinkerParameters
             THEN /\ fhir_bundle' = link_interrupted(b1, encs)
                  /\ charm_warnings' =
                        extracted
                        \o <<Warn("CHARM processing error (non-fatal)",
                                  <<"AttributeError">>, 0, NoRef)>>
             ELSE /\ fhir_bundle' = b1
                  /\ charm_warnings' =
                        extracted
                        \o <<Warn("CHARM processing error (non-fatal)",
                                  <<"TypeError">>, 0, NoRef)>>
    /\ cpc' = "applied"
    /\ UNCHANGED <<notes, problems, medications, charmRest>>

CharmNext ==
    \/ SynthesizeEncounters
    \/ LinkResourcesToEncounters
    \/ BuildCompositions
    \/ ApplyCharmProcessing

SpecCharm == CharmInit /\ [][CharmNext]_vars

----------------------------------------------------------------------------
(* Properties of the CHARM step *)

EntriesOf(k) == {i \in DOMAIN fhir_bundle : fhir_bundle[i].kind = k}

\* the day of actualPeriod.start (Encounter) or date (Composition)
DayOf(i) == fromisoformat(fhir_bundle[i].date)

\* the day the linker goes by
LinkDay(e) ==
    IF e.kind = "Condition"
    THEN fromisoformat(IF e.date # "" THEN e.date ELSE e.date2)
    ELSE fromisoformat(IF e.date2 # "" THEN e.date2 ELSE e.date)

\* C19: nearest-prior-or-exact linking.  After the linker, a Condition or
\* MedicationStatement whose date parses to d and for which some Encounter
\* is dated on or before d carries one back-reference, encounter on a
\* Condition and context on a MedicationStatement, to the Encounter with
\* the greatest date on or before d; every other one carries none.
C19_NearestPriorOrExact ==
    cpc = "linked" =>
        \A i \in EntriesOf("Condition") \cup EntriesOf("MedicationStatement") :
            LET e == fhir_bundle[i]
                prior == {j \in EntriesOf("Encounter") :
                             LinkDay(e) # NoDate /\ DayOf(j) <= LinkDay(e)}
            IN IF prior # {}
               THEN \E j \in prior :
                       /\ \A k \in prior : DayOf(k) <= DayOf(j)
                       /\ e.refs =
                            <<Slot(IF e.kind = "Condition" THEN "encounter"
                                   ELSE "context", FALSE,
                                   RelRef("Encounter", fhir_bundle[j].id))>>
               ELSE e.refs = <<>>

\* encounters on the first and the third day; the Condition of the second
\* day is linked to the first encounter, the MedicationStatement of the
\* third day to the second
C19_Witness ==
    /\ cpc = "linked"
    /\ Len(encounters) = 2
    /\ encounters[1].date = 1
    /\ encounters[2].date = 3
    /\ \E i \in EntriesOf("Condition") :
          /\ fhir_bundle[i].date = IsoDays[2]
          /\ fhir_bundle[i].refs =
                <<Slot("encounter", FALSE, RelRef("Encounter", "e1"))>>
    /\ \E i \in EntriesOf("MedicationStatement") :
          /\ fhir_bundle[i].date2 = TimedDays[3]
          /\ fhir_bundle[i].refs =
                <<Slot("context", FALSE, RelRef("Encounter", "e2"))>>

\* the notes are on exactly two dates, the document has no problems and no
\* medications, and the bundle has one Patient entry
TwoNoteDates ==
    /\ Cardinality(NoteDates) = 2
    /\ problems = <<>>
    /\ medications = <<>>
    /\ EntriesOf("Condition") \cup EntriesOf("MedicationStatement") = {}
    /\ Cardinality(EntriesOf("Patient")) = 1

\* the forms that name entry i: its fullUrl and ResourceType/<id>
NamesOf(i) ==
    {fhir_bundle[i].fullUrl, RelRef(fhir_bundle[i].kind, fhir_bundle[i].id)}
    \ {NoRef, RelRef(fhir_bundle[i].kind, "")}

\* the bundle holds two Encounters and two Compositions, one of each for
\* each note date, each Composition referring to the Encounter of its
\* date, and the subject of all four names the Patient entry
TwoEncountersTwoCompositions ==
    /\ Cardinality(EntriesOf("Encounter")) = 2
    /\ Cardinality(EntriesOf("Composition")) = 2
    /\ \A d \in NoteDates :
          \E j \in EntriesOf("Encounter") : \E c \in EntriesOf("Composition") :
             /\ DayOf(j) = d
             /\ DayOf(c) = d
             /\ \E n \in DOMAIN fhir_bundle[c].refs :
                   /\ fhir_bundle[c].refs[n].field = "encounter"
                   /\ fhir_bundle[c].refs[n].ref \in NamesOf(j)
    /\ \A i \in EntriesOf("Encounter") \cup EntriesOf("Composition") :
          \E p \in EntriesOf("Patient") : fhir_bundle[i].subject \in NamesOf(p)

\* C20: notes on two dates.  For a document with notes on exactly two
\* dates and without problems and medications, the bundle that the CHARM
\* step of the import returns holds two Encounters and two Compositions,
\* one of each for each date, each Composition referring to its Encounter,
\* all four with the Patient entry as subject.
C20_TwoNoteDates ==
    (cpc = "applied" /\ TwoNoteDates) => TwoEncountersTwoCompositions

----------------------------------------------------------------------------
(* _ensure_all_fullurls_and_remap_references on its own: bounded inputs *)

\* record kind and local id of the generated entries: two kinds under one
\* local id, an entry without resourceType, a record without id
EnsureProfiles ==
    { <<"Encounter", "a">>, <<"Condition", "a">>, <<"Encounter", "b">>,
      <<"", "a">>, <<"Encounter", "">> }

\* the fullUrl the converter gave entry i
EnsureFullUrl(form, k, id, i) ==
    CASE form = "missing" -> NoRef
      [] form = "abs" -> AbsRef(k, IF id = "" THEN Uuids[i] ELSE id)
      [] OTHER -> UrnRef(Uuids[i])

\* the reference the last entry carries to entry tgt: ResourceType/id, or
\* tgt's fullUrl
EnsureReference(prof, form, tgt, byUrl) ==
    IF byUrl
    THEN EnsureFullUrl(form[tgt], prof[tgt][1], prof[tgt][2], tgt)
    ELSE IF prof[tgt][1] # "" /\ prof[tgt][2] # ""
         THEN RelRef(prof[tgt][1], prof[tgt][2]) ELSE NoRef

EnsureBundle(prof, form, tgt, byUrl) ==
    [i \in 1..MaxEntries |->
        MkEntry(EnsureFullUrl(form[i], prof[i][1], prof[i][2], i),
                prof[i][1], prof[i][2], "", "", "", RelRef("Patient", "p0"),
                IF i = MaxEntries
                   /\ EnsureReference(prof, form, tgt, byUrl) # NoRef
                THEN <<Slot("ref", FALSE,
                            EnsureReference(prof, form, tgt, byUrl))>>
                ELSE <<>>)]

EnsureInit ==
    /\ NoCall
    /\ \E prof \in [1..MaxEntries -> EnsureProfiles],
          form \in [1..MaxEntries -> UrlForms],
          tgt \in 1..MaxEntries, byUrl \in BOOLEAN :
          bundle = EnsureBundle(prof, form, tgt, byUrl)
    /\ raw = <<>>
    /\ ensured = <<>>
    /\ idWarnings = <<>>
    /\ tx = <<>>
    /\ phase = "raw"
    /\ persons = {}
    /\ patients = {}
    /\ nextId = 1
    /\ mt = <<>>
    /\ calls = 0
    /\ request = NoImportRequest
    /\ pc = "off"
    /\ run = 0
    /\ warnings = <<>>
    /\ errors = <<>>
    /\ match_result = NoResult
    /\ resources = {}
    /\ storeLog = <<>>
    /\ txResult = <<>>
    /\ response = NoResponse
    /\ history = <<>>
    /\ converted = ""
    /\ pre = NoStore

EnsureNext == EnsureFullUrls

SpecEnsure == EnsureInit /\ [][EnsureNext]_vars

----------------------------------------------------------------------------
(* Properties of _ensure_all_fullurls_and_remap_references *)

\* C21: canonical identifier assignment.  After
\* _ensure_all_fullurls_and_remap_references every entry that has a record
\* kind carries a fullUrl of the urn:uuid form, and no two entries of the
\* bundle carry the same fullUrl, also when two records of different kinds
\* share one local id.
C21_CanonicalIdentifiers ==
    phase = "ensured" =>
        /\ \A i \in DOMAIN bundle :
              bundle[i].kind # "" => IsUrn(bundle[i].fullUrl)
        /\ \A i, j \in DOMAIN bundle :
              (i # j /\ bundle[i].kind # "" /\ bundle[j].kind # "") =>
                 bundle[i].fullUrl # bundle[j].fullUrl

\* the first conjunct of C21 alone: the urn:uuid form
EveryKindHasUrn ==
    phase = "ensured" =>
        \A i \in DOMAIN bundle :
           bundle[i].kind # "" => IsUrn(bundle[i].fullUrl)

\* reference string r was an address of entry j of the input: its
\* ResourceType/id, or its fullUrl when that was not of the urn:uuid form
OldAddress(r, j) ==
    /\ raw[j].kind # ""
    /\ \/ raw[j].id # "" /\ r = RelRef(raw[j].kind, raw[j].id)
       \/ /\ raw[j].fullUrl # NoRef
          /\ ~IsUrn(raw[j].fullUrl)
          /\ r = raw[j].fullUrl

\* C26: both forms of an entry's old address are mapped.  After
\* _ensure_all_fullurls_and_remap_references every reference that named an
\* entry by ResourceType/id, and every reference that named an entry by its
\* original fullUrl when that fullUrl was not of the urn:uuid form, is the
\* entry's new urn:uuid fullUrl.
C26_BothAddressFormsMapped ==
    phase = "ensured" =>
        \A i \in DOMAIN raw : \A n \in DOMAIN raw[i].refs :
           \A j \in DOMAIN raw :
              OldAddress(raw[i].refs[n].ref, j) =>
                 bundle[i].refs[n].ref = bundle[j].fullUrl

\* the ResourceType/id half of C26, for entries that are the only one of
\* their kind and local id
RelAddressMapped ==
    phase = "ensured" =>
        \A i \in DOMAIN raw : \A n \in DOMAIN raw[i].refs :
           \A j \in DOMAIN raw :
              ( /\ raw[j].kind # "" /\ raw[j].id # ""
                /\ raw[i].refs[n].ref = RelRef(raw[j].kind, raw[j].id)
                /\ \A k \in DOMAIN raw :
                      (raw[k].kind = raw[j].kind /\ raw[k].id = raw[j].id)
                         => k = j ) =>
                 bundle[i].refs[n].ref = bundle[j].fullUrl

----------------------------------------------------------------------------
(* Properties of the CHARM step when it fails *)

ProcessingError ==
    \E n \in DOMAIN charm_warnings :
       charm_warnings[n].msg = "CHARM processing error (non-fatal)"

\* build_compositions returned: its last warning closes the list
ProcessingCompleted ==
    /\ charm_warnings # <<>>
    /\ charm_warnings[Len(charm_warnings)].msg \in
          { "Created Composition resources",
            "Cannot create Compositions: no Patient reference found" }

\* the encounter back-references of entry i: encounter and context
BackRefs(i) ==
    {fhir_bundle[i].refs[n].ref :
        n \in {k \in DOMAIN fhir_bundle[i].refs :
                  fhir_bundle[i].refs[k].field \in {"encounter", "context"}}}

\* a back-reference of entry i names no Encounter entry of the bundle
HalfLinked(i) ==
    /\ fhir_bundle[i].kind \in {"Condition", "MedicationStatement",
                                "Composition"}
    /\ \E r \in BackRefs(i) :
          \A j \in EntriesOf("Encounter") : r \notin NamesOf(j)

InterruptedHalfLinked ==
    /\ cpc = "raised"
    /\ \E i \in EntriesOf("Condition") : HalfLinked(i)
    /\ EntriesOf("Encounter") = {}

----------------------------------------------------------------------------
(* ccda_preprocessor.py: the dose values of the C-CDA *)

\* a float that is a whole number, or a whole number and a half
Num(n) == [whole |-> n, half |-> FALSE]

\* The value attribute of a doseQuantity element.
\*   "number"  a text NUMERIC_PATTERN matches; num is the number it denotes
\*   "range"   a text RANGE_PATTERN matches, "<low>-<high>"
\*   "leading" another text that starts with a number, as "2 tablets"
\*   "words"   a text without a leading number, as "as needed"
NumberValue(x) == [kind |-> "number", num |-> x, low |-> 0, high |-> 0]

RangeValue(l, h) == [kind |-> "range", num |-> Num(0), low |-> l, high |-> h]

LeadingValue(n) == [kind |-> "leading", num |-> Num(n), low |-> 0, high |-> 0]

WordsValue == [kind |-> "words", num |-> Num(0), low |-> 0, high |-> 0]

\* a substanceAdministration: the code of its manufacturedMaterial ("" when
\* it has none) and its doseQuantity element (value <<>>: no attribute)
SubstanceAdministration(code, value) ==
    [code |-> code, value |-> value, nullFlavor |-> ""]

DoseRangeInfo(low, high, medication_code) ==
    [low |-> low, high |-> high, medication_code |-> medication_code]

\* avg = (low + high) / 2 of two whole numbers; str(int(avg)) or str(avg)
\* is the text that denotes it
avg(low, high) ==
    [whole |-> (low + high) \div 2, half |-> (low + high) % 2 = 1]

\* _find_medication_code: the code attribute of
\* consumable/manufacturedProduct/manufacturedMaterial/code, else None
_find_medication_code(med) == med.code

\* the element after the fix of its value attribute (lines 125-177)
fix_value(med) ==
    IF med.value = <<>> \/ med.value[1].kind = "number" THEN med
    ELSE IF med.value[1].kind = "range"
    THEN [med EXCEPT !.value =
             <<NumberValue(avg(med.value[1].low, med.value[1].high))>>]
    ELSE IF med.value[1].kind = "leading"
    THEN [med EXCEPT !.value = <<NumberValue(med.value[1].num)>>]
    ELSE [med EXCEPT !.value = <<>>, !.nullFlavor = "NI"]

\* _fix_numeric_value_attributes over the doseQuantity elements, in
\* document order
_fix_numeric_value_attributes(meds) ==
    LET fixed == SelectSeq([i \in 1..Len(meds) |-> i],
                     LAMBDA i : /\ meds[i].value # <<>>
                                /\ meds[i].value[1].kind # "number")
        ranged == SelectSeq(fixed, LAMBDA i : meds[i].value[1].kind = "range")
    IN [meds |-> [i \in DOMAIN meds |-> fix_value(meds[i])],
        warnings |->
           [n \in DOMAIN fixed |->
               Warn("Sanitized doseQuantity/@value", <<>>, fixed[n], NoRef)],
        ranges |->
           [n \in DOMAIN ranged |->
               DoseRangeInfo(Num(meds[ranged[n]].value[1].low),
                             Num(meds[ranged[n]].value[1].high),
                             _find_medication_code(meds[ranged[n]]))]]

----------------------------------------------------------------------------
(* gateway._convert_dose_quantities_to_ranges *)

\* a doseAndRate element: doseQuantity.value and doseRange, <<>> for none
DoseAndRate(q) == [doseQuantity |-> q, doseRange |-> <<>>]

NoMedication == [concept |-> <<>>, reference |-> NoRef]

\* an entry of the bundle, as far as the doses go: coding holds the codes
\* of Medication.code.coding, medication is the R5 CodeableReference
DoseEntry(k, i, codes, concept, ref, dosage) ==
    [kind |-> k, id |-> i, fullUrl |-> UrnRef(i), coding |-> codes,
     medicationCodeableConcept |-> concept, medicationReference |-> ref,
     medication |-> NoMedication, dosage |-> dosage]

\* medication.py _transform_medication
_transform_medication(e) ==
    IF e.medicationCodeableConcept # <<>>
    THEN [concept |-> e.medicationCodeableConcept, reference |-> NoRef]
    ELSE IF e.medicationReference # NoRef
    THEN [concept |-> <<>>, reference |-> e.medicationReference]
    ELSE NoMedication

\* transform_bundle on the dose fields: a MedicationStatement keeps dosage
\* and gets medication; a Medication has no transformer
transform_doses(b) ==
    [i \in DOMAIN b |->
        IF b[i].kind = "MedicationStatement"
        THEN [b[i] EXCEPT !.medication = _transform_medication(b[i]),
                          !.medicationCodeableConcept = <<>>,
                          !.medicationReference = NoRef]
        ELSE b[i]]

\* the first code of a coding list that is not empty, else None
first_code(codes) ==
    LET cs == SelectSeq(codes, LAMBDA c : c # "")
    IN IF cs = <<>> THEN "" ELSE cs[1]

\* ref_str names the Medication entry e (lines 898-902); the ids of the
\* model are no suffix of one another
names_medication(ref_str, e) ==
    \/ ref_str = RelRef("Medication", e.id)
    \/ ref_str = e.fullUrl
    \/ e.id # "" /\ ref_str.id = e.id

\* _get_medication_code_from_statement: the inline concept first, then the
\* Medication entries the reference names, in bundle order
RECURSIVE referenced_code(_, _, _)
referenced_code(ref_str, b, i) ==
    IF i > Len(b) THEN ""
    ELSE IF /\ b[i].kind = "Medication"
            /\ names_medication(ref_str, b[i])
            /\ first_code(b[i].coding) # ""
    THEN first_code(b[i].coding)
    ELSE referenced_code(ref_str, b, i + 1)

_get_medication_code_from_statement(st, b) ==
    IF first_code(st.medication.concept) # ""
    THEN first_code(st.medication.concept)
    ELSE IF st.medication.reference # NoRef
    THEN referenced_code(st.medication.reference, b, 1)
    ELSE ""

\* the first range of ranges_by_code[med_code] that is not in used_ranges,
\* 0 for none (lines 830-837)
range_for(ranges, med_code, used) ==
    LET free == {r \in DOMAIN ranges :
                    ranges[r].medication_code = med_code /\ r \notin used}
    IN IF free = {} THEN 0 ELSE CHOOSE r \in free : \A q \in free : r <= q

\* the inner loop (lines 846-863): the first element with a doseQuantity
\* becomes a doseRange, and break leaves this loop
convert_dose_and_rate(list, range_info) ==
    LET with == {k \in DOMAIN list : list[k].doseQuantity # <<>>}
        first == IF with = {} THEN 0
                 ELSE CHOOSE k \in with : \A l \in with : k <= l
    IN [k \in DOMAIN list |->
           IF k = first
           THEN [doseQuantity |-> <<>>,
                 doseRange |-> <<[low |-> range_info.low,
                                  high |-> range_info.high]>>]
           ELSE list[k]]

\* the outer loop over resource["dosage"] (line 844), which the break does
\* not leave
convert_dosages(dosage, range_info) ==
    [d \in DOMAIN dosage |-> convert_dose_and_rate(dosage[d], range_info)]

\* the loop over the entries from entry i on; used is used_ranges
RECURSIVE convert_from(_, _, _, _)
convert_from(b, ranges, i, used) ==
    IF i > Len(b) THEN b
    ELSE IF b[i].kind # "MedicationStatement"
    THEN convert_from(b, ranges, i + 1, used)
    ELSE LET med_code == _get_medication_code_from_statement(b[i], b)
             r == IF med_code = "" THEN 0 ELSE range_for(ranges, med_code, used)
         IN IF r = 0 THEN convert_from(b, ranges, i + 1, used)
            ELSE convert_from(
                    [b EXCEPT ![i].dosage = convert_dosages(@, ranges[r])],
                    ranges, i + 1, used \cup {r})

_convert_dose_quantities_to_ranges(b, ranges) ==
    IF ranges = <<>> THEN b ELSE convert_from(b, ranges, 1, {})

----------------------------------------------------------------------------
(* The dose handling of an import: bounded inputs *)

MaxMeds == 2

DoseCodes == {"", "rx1", "rx2"}

\* no value attribute, "2", "1-2", "1-3", "2 tablets", "as needed"
DoseValues ==
    { <<>>, <<NumberValue(Num(2))>>, <<RangeValue(1, 2)>>,
      <<RangeValue(1, 3)>>, <<LeadingValue(2)>>, <<WordsValue>> }

SubstanceAdministrations ==
    {SubstanceAdministration(c, v) : c \in DoseCodes, v \in DoseValues}

StatementIds == <<"s1", "s2", "s3", "s4">>

DoseMedicationIds == <<"d1", "d2", "d3", "d4">>

\* The dosage list the converter builds for one substanceAdministration:
\* per dosage entry, per doseAndRate element, whether it holds the dose.
\* One element; two dosage entries; one entry with a rate-only element
\* and two dose elements.
DoseShapes ==
    { <<<<TRUE>>>>, <<<<TRUE>>, <<TRUE>>>>, <<<<FALSE, TRUE, TRUE>>>> }

\* the converter's entries for the i-th substanceAdministration: a
\* MedicationStatement with the code inline, or with a reference to a
\* Medication entry that holds it; a dose only when the element has a value
ConverterMedication(med, i, shape, viaRef) ==
    LET q == IF med.value = <<>> THEN <<>> ELSE <<med.value[1].num>>
        dosage == [d \in DOMAIN shape |->
                      [k \in DOMAIN shape[d] |->
                          DoseAndRate(IF shape[d][k] THEN q ELSE <<>>)]]
        codes == IF med.code = "" THEN <<>> ELSE <<med.code>>
    IN IF viaRef
       THEN << DoseEntry("MedicationStatement", StatementIds[i], <<>>, <<>>,
                         RelRef("Medication", DoseMedicationIds[i]), dosage),
               DoseEntry("Medication", DoseMedicationIds[i], codes, <<>>,
                         NoRef, <<>>) >>
       ELSE << DoseEntry("MedicationStatement", StatementIds[i], <<>>, codes,
                         NoRef, dosage) >>

RECURSIVE ConverterMedications(_, _, _, _)
ConverterMedications(meds, shapes, viaRef, i) ==
    IF i > Len(meds) THEN <<>>
    ELSE ConverterMedication(meds[i], i, shapes[i], viaRef)
         \o ConverterMedications(meds, shapes, viaRef, i + 1)

DoseInit ==
    /\ AllOff
    /\ NoTransform
    /\ NoCharm
    /\ NoPersist
    /\ \E n \in 0..MaxMeds : ccda_meds \in [1..n -> SubstanceAdministrations]
    /\ sanitized_meds = <<>>
    /\ dose_ranges = <<>>
    /\ dose_r4 = <<>>
    /\ dose_r5 = <<>>
    /\ dose_out = <<>>
    /\ dpc = "source"

doseRest == <<r4_bundle, r5_bundle, transform_warnings, fpc, charmVars,
             persistVars,
              idsVars, storeVars, matcherVars, pipeVars>>

\* _process_ccda, line 278
SanitizeCcda ==
    /\ dpc = "source"
    /\ \E r \in {_fix_numeric_value_attributes(ccda_meds)} :
          /\ sanitized_meds' = r.meds
          /\ dose_ranges' = r.ranges
    /\ dpc' = "sanitized"
    /\ UNCHANGED <<ccda_meds, dose_r4, dose_r5, dose_out, doseRest>>

\* the converter service answers for the sanitized document
ConverterAnswers ==
    /\ dpc = "sanitized"
    /\ \E shapes \in [DOMAIN sanitized_meds -> DoseShapes],
          viaRef \in BOOLEAN :
          dose_r4' = ConverterMedications(sanitized_meds, shapes, viaRef, 1)
    /\ dpc' = "converted"
    /\ UNCHANGED <<ccda_meds, sanitized_meds, dose_ranges, dose_r5, dose_out,
                   doseRest>>

\* process_import, line 129
TransformDoses ==
    /\ dpc = "converted"
    /\ dose_r5' = transform_doses(dose_r4)
    /\ dpc' = "transformed"
    /\ UNCHANGED <<ccda_meds, sanitized_meds, dose_ranges, dose_r4, dose_out,
                   doseRest>>

\* process_import, lines 133-134
ConvertDoseQuantities ==
    /\ dpc = "transformed"
    /\ dose_out' = IF dose_ranges # <<>>
                   THEN _convert_dose_quantities_to_ranges(dose_r5, dose_ranges)
                   ELSE dose_r5
    /\ dpc' = "restored"
    /\ UNCHANGED <<ccda_meds, sanitized_meds, dose_ranges, dose_r4, dose_r5,
                   doseRest>>

DoseNext ==
    \/ SanitizeCcda
    \/ ConverterAnswers
    \/ TransformDoses
    \/ ConvertDoseQuantities

SpecDose == DoseInit /\ [][DoseNext]_vars

----------------------------------------------------------------------------
(* Properties of the dose handling *)

\* the substanceAdministrations whose dose value is a range
RangeMeds ==
    {i \in DOMAIN ccda_meds :
        ccda_meds[i].value # <<>> /\ ccda_meds[i].value[1].kind = "range"}

\* the codes that own a range
RangeCodes == {ccda_meds[i].code : i \in RangeMeds} \ {""}

\* the MedicationStatement of bundle b that came from the m-th
\* substanceAdministration
StatementOf(b, m) == b[CHOOSE j \in DOMAIN b : b[j].id = StatementIds[m]]

\* an element of the statement's dosage is the range low..high
HasRange(e, low, high) ==
    \E d \in DOMAIN e.dosage : \E k \in DOMAIN e.dosage[d] :
       e.dosage[d][k].doseRange = <<[low |-> Num(low), high |-> Num(high)]>>

\* the range of the i-th substanceAdministration is on a statement of its
\* code
Restored(i) ==
    \E m \in DOMAIN ccda_meds :
       /\ ccda_meds[m].code = ccda_meds[i].code
       /\ HasRange(StatementOf(dose_out, m), ccda_meds[i].value[1].low,
                   ccda_meds[i].value[1].high)

\* a range value is replaced by the text of its average
SanitizedToAverage ==
    dpc \in {"sanitized", "converted", "transformed", "restored"} =>
        \A i \in RangeMeds :
           LET v == sanitized_meds[i].value
           IN /\ v # <<>>
              /\ v[1].kind = "number"
              /\ 2 * v[1].num.whole + (IF v[1].num.half THEN 1 ELSE 0)
                    = ccda_meds[i].value[1].low + ccda_meds[i].value[1].high

RangesRestored ==
    dpc = "restored" =>
        \A i \in RangeMeds : ccda_meds[i].code # "" => Restored(i)

\* a statement whose code owns no range keeps its doses
OthersKeepQuantity ==
    dpc = "restored" =>
        \A m \in DOMAIN ccda_meds :
           ccda_meds[m].code \notin RangeCodes =>
              StatementOf(dose_out, m).dosage = StatementOf(dose_r5, m).dosage

\* no more statements carry a range than substanceAdministrations own it
RangeAppliedOnce ==
    dpc = "restored" =>
        \A i \in RangeMeds :
           Cardinality({m \in DOMAIN ccda_meds :
                           /\ ccda_meds[m].code = ccda_meds[i].code
                           /\ HasRange(StatementOf(dose_out, m),
                                       ccda_meds[i].value[1].low,
                                       ccda_meds[i].value[1].high)})
           <= Cardinality({j \in RangeMeds :
                              /\ ccda_meds[j].code = ccda_meds[i].code
                              /\ ccda_meds[j].value = ccda_meds[i].value})

\* C23: dose-range restoration.  A dose value that is a range low-high in
\* the source is replaced by its average before conversion; after the
\* transformation the range of a medication that has a code is on a
\* MedicationStatement of that code as low and high; a MedicationStatement
\* whose code owns no range keeps its dose quantities; and a range is on no
\* more MedicationStatements than medications own it.
C23_DoseRangeRestoration ==
    /\ SanitizedToAverage
    /\ RangesRestored
    /\ OthersKeepQuantity
    /\ RangeAppliedOnce

\* the m-th statement gets a range: its code has a recorded range left
\* when its turn comes, the statements being visited in bundle order
Matched(m) ==
    /\ ccda_meds[m].code # ""
    /\ Cardinality({k \in 1..m : ccda_meds[k].code = ccda_meds[m].code})
          <= Cardinality({r \in DOMAIN dose_ranges :
                 dose_ranges[r].medication_code = ccda_meds[m].code})

\* the doseAndRate elements of the m-th statement, by dosage entry and place
DoseElements(m) ==
    {dk \in (1..2) \X (1..3) :
        /\ dk[1] \in DOMAIN StatementOf(dose_r5, m).dosage
        /\ dk[2] \in DOMAIN StatementOf(dose_r5, m).dosage[dk[1]]}

\* those that _convert_dose_quantities_to_ranges changed
ChangedElements(m) ==
    {dk \in DoseElements(m) :
        StatementOf(dose_out, m).dosage[dk[1]][dk[2]]
           # StatementOf(dose_r5, m).dosage[dk[1]][dk[2]]}

\* those that hold a dose quantity before it
QuantityElements(m) ==
    {dk \in DoseElements(m) :
        StatementOf(dose_r5, m).dosage[dk[1]][dk[2]].doseQuantity # <<>>}

\* C30: one conversion per MedicationStatement.  After
\* _convert_dose_quantities_to_ranges a MedicationStatement that was matched
\* to a recorded range, and holds a dose quantity, has exactly one of its
\* doseAndRate elements turned from doseQuantity into doseRange, whatever
\* the number of its dosage entries and doseAndRate elements; all its other
\* elements, and all elements of the other statements, are unchanged.
C30_OneConversionPerStatement ==
    dpc = "restored" =>
        \A m \in DOMAIN ccda_meds :
           /\ ChangedElements(m) \subseteq QuantityElements(m)
           /\ \A dk \in ChangedElements(m) :
                 LET e == StatementOf(dose_out, m).dosage[dk[1]][dk[2]]
                 IN e.doseQuantity = <<>> /\ e.doseRange # <<>>
           /\ IF Matched(m) /\ QuantityElements(m) # {}
              THEN Cardinality(ChangedElements(m)) = 1
              ELSE ChangedElements(m) = {}

\* the same for statements with a single dosage entry
OneConversionPerDosageEntry ==
    dpc = "restored" =>
        \A m \in DOMAIN ccda_meds :
           Len(StatementOf(dose_r5, m).dosage) = 1 =>
              IF Matched(m) /\ QuantityElements(m) # {}
              THEN Cardinality(ChangedElements(m)) = 1
              ELSE ChangedElements(m) = {}

----------------------------------------------------------------------------
(* FHIRStoreService.persist_bundle on its own, and _create_import_encounter *)

\* str.split("/") of a string written as the sequence of its pieces, the
\* separator "/" being a piece of its own: the text between the
\* separators, the empty string where two separators meet
RECURSIVE split(_)
split(s) ==
    IF s = <<>> THEN <<"">>
    ELSE IF Head(s) = "/" THEN <<"">> \o split(Tail(s))
    ELSE LET rest == split(Tail(s))
         IN <<Head(s) \o Head(rest)>> \o Tail(rest)

\* lines 99-104: the part before the first "_history" that is not the
\* first part, "" when there is none
history_id(parts) ==
    LET at == {n \in 2..Len(parts) : parts[n] = "_history"}
    IN IF at = {} THEN ""
       ELSE parts[(CHOOSE n \in at : \A m \in at : n <= m) - 1]

\* lines 92-114 for response entry i: the id_mapping after it
map_location(id_mapping, sub, i, location) ==
    IF location = <<>> THEN id_mapping
    ELSE LET parts == split(location)
             resource_id == history_id(parts)
         IN IF resource_id = "" /\ Len(parts) >= 2
               /\ i <= Len(sub) /\ sub[i] # ""
            THEN Put(id_mapping, sub[i], parts[2])
            ELSE id_mapping

\* lines 78-114, the id_mapping of the whole response
RECURSIVE map_locations(_, _, _, _)
map_locations(id_mapping, sub, entries, i) ==
    IF i > Len(entries) THEN id_mapping
    ELSE map_locations(map_location(id_mapping, sub, i, entries[i].location),
                       sub, entries, i + 1)

\* status.startswith("2")
starts_with_2(status) == status \in {"200", "201"}

\* lines 116-127 for one response entry: the lines it adds to errors
entry_errors(e) ==
    IF starts_with_2(e.status) THEN <<>>
    ELSE [n \in DOMAIN e.outcome |-> IssueLine(e.outcome[n])]

RECURSIVE response_errors(_, _)
response_errors(entries, i) ==
    IF i > Len(entries) THEN <<>>
    ELSE entry_errors(entries[i]) \o response_errors(entries, i + 1)

PersistenceResult(success, created, updated, errs, id_mapping) ==
    [success |-> success, resources_created |-> created,
     resources_updated |-> updated, errors |-> errs,
     id_mapping |-> id_mapping]

\* persist_bundle, lines 61-184, for the fullUrls sub of the transaction
\* entries and the answer resp of _execute_bundle
persist_bundle(sub, resp) ==
    IF resp.raised
    THEN PersistenceResult(FALSE, 0, 0, <<<<"HTTPStatusError">>>>,
                           [x \in {} |-> ""])
    ELSE LET entries == resp.entry
             errs == response_errors(entries, 1)
         IN PersistenceResult(
               Len(errs) = 0,
               Cardinality({i \in DOMAIN entries : entries[i].status = "201"}),
               Cardinality({i \in DOMAIN entries : entries[i].status = "200"}),
               errs,
               map_locations([x \in {} |-> ""], sub, entries, 1))

\* the ids the store assigns, by position in the transaction
AssignedIds == <<"0a1", "0a2", "0a3", "0a4">>

\* UUID(resource_id) succeeds
is_uuid(resource_id) ==
    \E n \in DOMAIN AssignedIds : AssignedIds[n] = resource_id

\* f"urn:uuid:{encounter_uuid}" of _create_import_encounter, and the
\* fullUrls of the entries of a bundle
SubmittedUrls == <<"urn:uuid:u1", "urn:uuid:u2", "urn:uuid:u3", "urn:uuid:u4">>

Returned(v) == [returned |-> TRUE, value |-> v]

Raised(text) == [returned |-> FALSE, value |-> text]

\* _create_import_encounter, lines 394-433, given the PersistenceResult
created_encounter_id(result) ==
    IF ~result.success THEN Raised("Failed to create encounter")
    ELSE IF DOMAIN result.id_mapping # {}
    THEN LET full_url == CHOOSE u \in DOMAIN result.id_mapping : TRUE
             resource_id == result.id_mapping[full_url]
         IN IF is_uuid(resource_id) THEN Returned(resource_id)
            ELSE Raised("Invalid encounter ID format")
    ELSE Raised("Encounter created but ID not returned")

(* What the store may answer *)

\* the location forms of a response entry for a record of a kind with an id
ShortLocation(k, id) == <<k, "/", id>>

ShortVersionedLocation(k, id) == <<k, "/", id, "/", "_history", "/", "v1">>

UrlLocation(k, id) ==
    <<"https:", "/", "/", "fhir.example", "/", "fhir", "/", k, "/", id>>

VersionedUrlLocation(k, id) ==
    UrlLocation(k, id) \o <<"/", "_history", "/", "v1">>

LocationForms == {"none", "short", "short-versioned", "url", "url-versioned"}

Location(form, k, id) ==
    CASE form = "short" -> ShortLocation(k, id)
      [] form = "short-versioned" -> ShortVersionedLocation(k, id)
      [] form = "url" -> UrlLocation(k, id)
      [] form = "url-versioned" -> VersionedUrlLocation(k, id)
      [] OTHER -> <<>>

\* the OperationOutcome issues a failed entry may carry
IssueLists == {<<>>, <<"rejected">>, <<"rejected", "invalid">>}

\* a response entry: written (201 or 200, with a location of some form)
\* or failed (400 or no status, with or without OperationOutcome issues)
ResponseShapes ==
    [status : {"201", "200"}, form : LocationForms, outcome : {<<>>}]
    \cup [status : {"400", ""}, form : {"none"}, outcome : IssueLists]

MaxResponses == 2

StoreAnswer(shapes, k) ==
    [raised |-> FALSE,
     entry |-> [i \in DOMAIN shapes |->
                  [status |-> shapes[i].status,
                   id |-> IF shapes[i].status \in {"201", "200"}
                          THEN AssignedIds[i] ELSE "",
                   form |-> shapes[i].form,
                   location |-> Location(shapes[i].form, k, AssignedIds[i]),
                   outcome |-> shapes[i].outcome]]]

HttpError == [raised |-> TRUE, entry |-> <<>>]

NoPersistenceResult == PersistenceResult(FALSE, 0, 0, <<>>, [x \in {} |-> ""])

PersistInit ==
    /\ AllOff
    /\ NoTransform
    /\ NoCharm
    /\ NoDose
    /\ \/ /\ ppc = "bundle"
          /\ \E n \in 1..MaxResponses :
             \E urls \in [1..n -> BOOLEAN], shapes \in [1..n -> ResponseShapes],
                http \in BOOLEAN :
                /\ submitted = [i \in 1..n |-> IF urls[i] THEN SubmittedUrls[i]
                                               ELSE ""]
                /\ store_response = IF http THEN HttpError
                                    ELSE StoreAnswer(shapes, "Condition")
       \/ /\ ppc = "appointment"
          /\ submitted = <<SubmittedUrls[1]>>
          /\ \E shape \in ResponseShapes, http \in BOOLEAN :
                store_response = IF http THEN HttpError
                                 ELSE StoreAnswer(<<shape>>, "Encounter")
    /\ persistence = NoPersistenceResult
    /\ encounter_id = Raised("")

persistRest == <<r4_bundle, r5_bundle, transform_warnings, fpc, charmVars,
                doseVars, idsVars, storeVars, matcherVars, pipeVars>>

\* process_import, line 207: persist_bundle for the bundle of an import
PersistImportBundle ==
    /\ ppc = "bundle"
    /\ persistence' = persist_bundle(submitted, store_response)
    /\ ppc' = "persisted"
    /\ UNCHANGED <<submitted, store_response, encounter_id, persistRest>>

\* _create_import_encounter, lines 394-433
CreateImportEncounter ==
    /\ ppc = "appointment"
    /\ \E result \in {persist_bundle(submitted, store_response)} :
          /\ persistence' = result
          /\ encounter_id' = created_encounter_id(result)
    /\ ppc' = "created"
    /\ UNCHANGED <<submitted, store_response, persistRest>>

PersistNext ==
    \/ PersistImportBundle
    \/ CreateImportEncounter

SpecPersist == PersistInit /\ [][PersistNext]_vars

----------------------------------------------------------------------------
(* Properties of persist_bundle *)

\* persist_bundle has returned for an answer that is a response bundle
Answered == ppc \in {"persisted", "created"} /\ ~store_response.raised

\* the response entries whose status is not 2xx
FailedEntries ==
    {i \in DOMAIN store_response.entry :
        store_response.entry[i].status \notin {"200", "201"}}

\* resources_created + resources_updated never exceeds the number of
\* response entries
CountsWithinResponse ==
    Answered =>
        persistence.resources_created + persistence.resources_updated
            <= Len(store_response.entry)

\* success is true exactly when errors is empty
SuccessIffNoErrors ==
    ppc \in {"persisted", "created"} =>
        (persistence.success <=> persistence.errors = <<>>)

\* C24: persist_bundle reports success only if every entry of the store's
\* transaction response has a 2xx status; every entry with another status
\* makes success false and adds at least one item to errors; created plus
\* updated never exceeds the number of response entries.
C24_SuccessOnlyIfEveryEntry2xx ==
    Answered =>
        /\ persistence.success => FailedEntries = {}
        /\ Len(persistence.errors) >= Cardinality(FailedEntries)
        /\ persistence.resources_created + persistence.resources_updated
              <= Len(store_response.entry)

\* a failed entry that carries OperationOutcome issues does make success
\* false and adds its issues to errors
FailureWithOutcomeReported ==
    Answered =>
        \A i \in FailedEntries :
            store_response.entry[i].outcome # <<>> =>
               /\ ~persistence.success
               /\ \A n \in DOMAIN store_response.entry[i].outcome :
                     \E m \in DOMAIN persistence.errors :
                        persistence.errors[m] =
                           IssueLine(store_response.entry[i].outcome[n])

\* the response entries that carry a location of one of the two forms:
\* full URL ending in <kind>/<id>/_history/<version>, or <kind>/<id>
Located ==
    {i \in DOMAIN store_response.entry :
        store_response.entry[i].form \in {"short", "url-versioned"}}

\* C25: after a successful persist_bundle, id_mapping maps the fullUrl of
\* every submitted entry whose response carries a location, in the full
\* URL form with _history or in the short form, to the id the store
\* assigned; creating one appointment Encounter that the store accepts
\* returns that Encounter's id.
C25_IdMappingComplete ==
    (Answered /\ persistence.success) =>
        /\ \A i \in Located :
              submitted[i] # "" =>
                 /\ submitted[i] \in DOMAIN persistence.id_mapping
                 /\ persistence.id_mapping[submitted[i]] =
                       store_response.entry[i].id
        /\ (ppc = "created" /\ Located # {}) =>
              encounter_id = Returned(store_response.entry[1].id)

\* the short form without _history is the one form that is mapped
ShortFormMapped ==
    (Answered /\ persistence.success) =>
        \A i \in DOMAIN store_response.entry :
            (store_response.entry[i].form = "short" /\ submitted[i] # "") =>
               /\ submitted[i] \in DOMAIN persistence.id_mapping
               /\ persistence.id_mapping[submitted[i]] =
                     store_response.entry[i].id

\* a location with _history is never mapped
VersionedFormUnmapped ==
    Answered =>
        \A i \in DOMAIN store_response.entry :
            store_response.entry[i].form \in {"short-versioned", "url-versioned"}
               => submitted[i] \notin DOMAIN persistence.id_mapping

----------------------------------------------------------------------------
(* Re-import cleanup *)

\* process_import has called delete_imported_resources in this run
DeletionCalled == \E n \in DOMAIN storeLog : storeLog[n].op = "search+delete"

\* process_import has sent the transaction of the bundle in this run
WriteSent == \E n \in DOMAIN storeLog : storeLog[n].op = "transaction"

\* delete_imported_resources returned errors in this run
DeletionErrors ==
    \E n \in DOMAIN warnings : warnings[n].msg = "Deletion warning"

\* what earlier imports of this source wrote for the Patient the resolver
\* matched, as the store held it when the request arrived
PreviousImports ==
    IF match_result = NoResult THEN {}
    ELSE {x \in pre.resources :
             /\ x.kind \in {"Encounter", "Condition", "Composition",
                            "MedicationStatement", "Observation"}
             /\ x.subject = RelRef("Patient", StoreId(match_result.patient_id))
             /\ x.tag = SourceSystem}

\* the write of the bundle failed: the store answered with an HTTP error or
\* rejected an instruction
WriteFailed ==
    /\ pc \in {"consent", "respond", "responded"}
    /\ WriteSent
    /\ (txResult = <<>> \/ FailedWrites # {})

\* deletion happens only for a Patient that existed before the run
DeletionOnlyForExistingPatient ==
    DeletionCalled =>
        /\ match_result # NoResult
        /\ ~match_result.patient_created
        /\ match_result.patient_id \in {p.id : p \in pre.patients}

\* whatever of the store's earlier records is gone was written by an
\* earlier import of this source for the matched Patient
OnlyTaggedResourcesDeleted ==
    pc \notin {"off", "idle"} =>
        (pre.resources \ resources) \subseteq PreviousImports

\* the deletion is requested before the transaction is sent
DeletionBeforeWrite ==
    \A n, m \in DOMAIN storeLog :
        (storeLog[n].op = "search+delete" /\ storeLog[m].op = "transaction")
            => n < m

\* C27: re-import cleanup ordering.  Within one run, earlier imports are
\* deleted only when the resolver matched a Patient that existed, only
\* records of that Patient with the same import source are deleted, the
\* deletion comes before the write, and whenever the write that follows
\* the deletion fails the Patient's earlier imports are no longer in the
\* store.
C27_CleanupBeforeWrite ==
    /\ DeletionOnlyForExistingPatient
    /\ OnlyTaggedResourcesDeleted
    /\ DeletionBeforeWrite
    /\ (DeletionCalled /\ WriteFailed) => PreviousImports \cap resources = {}

\* the same, where the earlier imports are gone after a failed write
\* whenever the deletion returned no errors
CleanupBeforeWriteWithoutDeletionErrors ==
    /\ DeletionOnlyForExistingPatient
    /\ OnlyTaggedResourcesDeleted
    /\ DeletionBeforeWrite
    /\ (DeletionCalled /\ ~DeletionErrors /\ WriteFailed) =>
          PreviousImports \cap resources = {}

\* a run that deleted earlier imports and whose write then failed
CleanDeletionThenFailedWrite ==
    /\ pc = "responded"
    /\ DeletionCalled
    /\ ~DeletionErrors
    /\ WriteFailed
    /\ PreviousImports # {}
    /\ PreviousImports \cap resources = {}

\* a run whose deletion failed and whose write failed: the earlier imports
\* are all still there
EarlierImportsKept ==
    /\ pc = "responded"
    /\ DeletionCalled
    /\ DeletionErrors
    /\ WriteFailed
    /\ PreviousImports # {}
    /\ PreviousImports \subseteq resources

----------------------------------------------------------------------------
(* The status of the response *)

\* the status rule: failed iff errors is non-empty, partial iff errors is
\* empty and warnings is not, completed iff both are empty
StatusRule ==
    pc = "responded" =>
        /\ response.status = "failed" <=> errors # <<>>
        /\ response.status = "partial" <=> (errors = <<>> /\ warnings # <<>>)
        /\ response.status = "completed" <=> (errors = <<>> /\ warnings = <<>>)

\* the warnings that report what a step did when nothing was dropped,
\* repaired or rejected
Reports ==
    {"Encounter ref cleanup", "Checked encounter refs",
     "Created new Person and Patient", "Created Patient for existing Person",
     "Matched existing Patient", "Persisted resources to FHIR store",
     "Created provisional Consent"}

\* a run in which no unit was dropped, repaired or rejected and every write
\* succeeded
CleanImport ==
    /\ pc = "responded"
    /\ errors = <<>>
    /\ \A n \in DOMAIN warnings : warnings[n].msg \in Reports
    /\ WriteSent => (response.persisted /\ FailedWrites = {})

\* C28: the completed status is reachable.  A C-CDA import in which no unit
\* is dropped, repaired or rejected and every write succeeds is answered
\* with status completed; and the status is failed iff errors is
\* non-empty, partial iff errors is empty and warnings is not, completed
\* iff both are empty.
C28_CompletedReachable ==
    /\ StatusRule
    /\ CleanImport => response.status = "completed"

\* no response has status completed
NeverCompleted == pc = "responded" => response.status # "completed"

\* a clean import has been answered
CleanImportAnswered == CleanImport /\ WriteSent

----------------------------------------------------------------------------
(* Concurrent import requests: two callers of match_or_create *)

\* the store before the first call is kept in pre
ConcurrentInit ==
    /\ NoCall
    /\ \E st \in InitialStores :
          /\ persons = st.persons
          /\ patients = st.patients
          /\ nextId = st.nextId
          /\ pre = [persons |-> st.persons, patients |-> st.patients,
                    resources |-> {}]
    /\ mt = [p \in Procs |-> IdleCall]
    /\ calls = 0
    /\ bundle = <<>>
    /\ raw = <<>>
    /\ ensured = <<>>
    /\ idWarnings = <<>>
    /\ tx = <<>>
    /\ phase = "off"
    /\ request = NoImportRequest
    /\ pc = "off"
    /\ run = 0
    /\ warnings = <<>>
    /\ errors = <<>>
    /\ match_result = NoResult
    /\ resources = {}
    /\ storeLog = <<>>
    /\ txResult = <<>>
    /\ response = NoResponse
    /\ history = <<>>
    /\ converted = ""

\* each await of match_or_create is a point where the other caller runs
ConcurrentNext ==
    \/ \E p \in Procs, demo \in Demos, org \in Orgs : MatcherCall(p, demo, org)
    \/ \E p \in Procs : MatcherSearch(p)
    \/ \E p \in Procs : MatcherFindPatient(p)
    \/ \E p \in Procs : MatcherCreatePerson(p)
    \/ \E p \in Procs : MatcherCreatePatient(p)
    \/ \E p \in Procs : MatcherRaise(p)

SpecConcurrent == ConcurrentInit /\ [][ConcurrentNext]_vars

\* the demographics no Person of the store had before the first call
Unknown == {d \in Demos : _search_person_by_demographics(pre.persons, d) = {}}

\* C29: concurrent identity resolution.  For any interleaving of calls of
\* match_or_create with the same given name, family name and birth date,
\* when no Person with them existed beforehand, at most one Person with
\* these demographics exists afterwards, and no call for them ends in
\* multiple-matches.
C29_ConcurrentResolution ==
    \A d \in Unknown :
        /\ Cardinality(_search_person_by_demographics(persons, d)) <= 1
        /\ \A p \in Procs :
              (mt[p].pc = "done" /\ mt[p].demo = d) =>
                  mt[p].result.status # MULTIPLE_MATCHES

\* two callers have both finished with new-person for the same subject
BothCreatedPerson ==
    /\ mt[1].pc = "done" /\ mt[2].pc = "done"
    /\ mt[1].demo = mt[2].demo
    /\ mt[1].demo \in Unknown
    /\ mt[1].result.status = NEW_PERSON_NEW_PATIENT
    /\ mt[2].result.status = NEW_PERSON_NEW_PATIENT
    /\ mt[1].result.person_id # mt[2].result.person_id

\* a later call for a subject unknown beforehand ends in multiple-matches
LaterCallMultipleMatches ==
    \E p \in Procs :
        /\ mt[p].pc = "done"
        /\ mt[p].demo \in Unknown
        /\ mt[p].result.status = MULTIPLE_MATCHES
====
